---------------------------- MODULE Spec2Model ----------------------------
(***************************************************************************)
(* OpenCodegen: the OpenAPI-to-TypeScript compiler.                        *)
(*                                                                         *)
(* The module models the reference resolver (src/parser/resolver.ts), the  *)
(* type generator (src/codegen/types.ts) and the client generator          *)
(* (src/codegen/clients.ts).  JavaScript strings are TLA+ strings, read    *)
(* character by character with SubSeq; the in-memory OpenAPI document is a *)
(* JSON value (objects keep their key order).                              *)
(***************************************************************************)
EXTENDS Integers, Sequences, FiniteSets, TLC

VARIABLES
    doc,          \* per pass: the document handed to generateTypes
    config,       \* per pass: the Partial<CodegenConfig> handed to generateTypes
    pc,           \* per pass: position inside generateTypes
    idx,          \* per pass: index of the next entry of Object.entries(schemas)
    ctx,          \* per pass: the GenerationContext
    interfaces,   \* per pass: the interfaces array
    output,       \* per pass: the string returned
    error,        \* per pass: the message of the Error thrown
    rendered,     \* per pass: history of the generateProperty calls made
    warnings,     \* per pass: history of the console.warn calls made
    clientPc,     \* per pass: position of the call of generateClients
    files,        \* per pass: the Map returned by generateClients
    clientOperations,  \* per pass: the operations array of generateClients
    clientGroups,      \* per pass: the grouped Map of generateClients
    resolveCall,  \* one call of resolveRef: its arguments and its outcome
    enumCall,     \* one call of generateEnum: its arguments and its outcome
    typeCall      \* one call of schemaToTypeString: its arguments and its outcome

vars == <<doc, config, pc, idx, ctx, interfaces, output, error, rendered, warnings,
          clientPc, files, clientOperations, clientGroups, resolveCall, enumCall,
          typeCall>>

typeVars == <<doc, config, pc, idx, ctx, interfaces, output, error, rendered, warnings>>

clientVars == <<clientPc, files, clientOperations, clientGroups>>

callVars == <<resolveCall, enumCall, typeCall>>

(***************************************************************************)
(* Bounds of the model.                                                    *)
(***************************************************************************)
MaxShapes == 2      \* named shapes in components.schemas
MaxPairShapes == 1  \* named shapes of a document generated next to another one
MaxTail == 2        \* characters following a pointer prefix
MaxPaths == 2       \* entries of the paths object of a document with operations
MaxEnumValues == 2  \* values of the enumeration handed to generateEnum
MaxArrayDepth == 2  \* arrays around the node handed to schemaToTypeString
MaxFormShapes == 1  \* named shapes of a document of declaration forms

(***************************************************************************)
(* Strings.                                                                *)
(***************************************************************************)
CharAt(s, i) == SubSeq(s, i, i)

Slice(s, from) == SubSeq(s, from, Len(s))

StartsWith(s, p) == Len(s) >= Len(p) /\ SubSeq(s, 1, Len(p)) = p

EndsWith(s, p) == Len(s) >= Len(p) /\ SubSeq(s, Len(s) - Len(p) + 1, Len(s)) = p

LowerAlpha == "abcdefghijklmnopqrstuvwxyz"

UpperAlpha == "ABCDEFGHIJKLMNOPQRSTUVWXYZ"

Digits == "0123456789"

\* the characters of s, as a set
CharsOf(s) == {CharAt(s, i) : i \in 1..Len(s)}

IsLower(c) == c \in CharsOf(LowerAlpha)

IsUpper(c) == c \in CharsOf(UpperAlpha)

IsDigit(c) == c \in CharsOf(Digits)

IndexIn(alphabet, c) == CHOOSE i \in 1..Len(alphabet) : CharAt(alphabet, i) = c

CharToUpper(c) == IF IsLower(c) THEN CharAt(UpperAlpha, IndexIn(LowerAlpha, c)) ELSE c

CharToLower(c) == IF IsUpper(c) THEN CharAt(LowerAlpha, IndexIn(UpperAlpha, c)) ELSE c

RECURSIVE toLowerCase(_)
toLowerCase(s) ==
    IF s = "" THEN "" ELSE CharToLower(Head(s)) \o toLowerCase(Tail(s))

\* first position >= from at which sep occurs in s, 0 when there is none
IndexOfFrom(s, sep, from) ==
    LET found == {i \in from..(Len(s) - Len(sep) + 1) : SubSeq(s, i, i + Len(sep) - 1) = sep}
    IN  IF found = {} THEN 0 ELSE CHOOSE i \in found : \A j \in found : i <= j

\* String.prototype.split with a non-empty separator
RECURSIVE Split(_, _)
Split(s, sep) ==
    LET i == IndexOfFrom(s, sep, 1)
    IN  IF i = 0 THEN <<s>>
        ELSE <<SubSeq(s, 1, i - 1)>> \o Split(Slice(s, i + Len(sep)), sep)

\* Array.prototype.join
RECURSIVE Join(_, _)
Join(parts, sep) ==
    IF parts = <<>> THEN ""
    ELSE IF Len(parts) = 1 THEN parts[1]
    ELSE parts[1] \o sep \o Join(Tail(parts), sep)

(***************************************************************************)
(* JSON values: the in-memory document.                                    *)
(***************************************************************************)
JUndefined == [kind |-> "undefined"]

JNull == [kind |-> "null"]

JStr(s) == [kind |-> "string", s |-> s]

JNum(n) == [kind |-> "number", n |-> n]   \* n is the text String(value) gives

JBool(b) == [kind |-> "boolean", b |-> b]

JArr(elems) == [kind |-> "array", elems |-> elems]

\* entries is the sequence Object.entries gives: records [k, v], keys distinct
JObj(entries) == [kind |-> "object", entries |-> entries]

KV(k, v) == [k |-> k, v |-> v]

IsObj(v) == v.kind = "object"

IsArr(v) == v.kind = "array"

\* typeof v === 'object' && v !== null
IsObjectLike(v) == v.kind \in {"object", "array"}

HasKey(v, k) == IsObj(v) /\ \E i \in 1..Len(v.entries) : v.entries[i].k = k

\* a canonical array index: "0", or digits without a leading zero
IsIndex(s) ==
    /\ s # ""
    /\ \A i \in 1..Len(s) : IsDigit(CharAt(s, i))
    /\ (Len(s) > 1 => Head(s) # "0")

RECURSIVE IndexValue(_)
IndexValue(s) ==
    IF s = "" THEN 0
    ELSE 10 * IndexValue(SubSeq(s, 1, Len(s) - 1)) + (IndexIn(Digits, CharAt(s, Len(s))) - 1)

\* v[k] for an own key of an object or an element of an array (members
\* inherited from a prototype are outside the model)
Get(v, k) ==
    IF IsObj(v) THEN
        IF HasKey(v, k)
        THEN v.entries[CHOOSE i \in 1..Len(v.entries) : v.entries[i].k = k].v
        ELSE JUndefined
    ELSE IF IsArr(v) /\ IsIndex(k) /\ IndexValue(k) < Len(v.elems)
        THEN v.elems[IndexValue(k) + 1]
    ELSE JUndefined

\* JavaScript truthiness
Truthy(v) ==
    CASE v.kind \in {"undefined", "null"} -> FALSE
      [] v.kind = "string" -> v.s # ""
      [] v.kind = "number" -> v.n \notin {"0", "NaN"}
      [] v.kind = "boolean" -> v.b
      [] OTHER -> TRUE

(***************************************************************************)
(* The reference resolver.                                                 *)
(***************************************************************************)
Returned(v) == [ok |-> TRUE, value |-> v, message |-> "", walked |-> 0]

Thrown(msg) == [ok |-> FALSE, value |-> JUndefined, message |-> msg, walked |-> 0]

UrlRefMessage(ref) ==
    "URL $ref not supported: " \o ref \o "\n"
    \o "  OpenCodegen currently only supports internal references (#/components/...).\n"
    \o "  Consider inlining the referenced schema into your OpenAPI document."

ExternalFileRefMessage(ref) ==
    "External file $ref not supported: " \o ref \o "\n"
    \o "  OpenCodegen currently only supports internal references (#/components/...).\n"
    \o "  Consider merging your OpenAPI files into a single document."

RECURSIVE WalkPath_unguarded(_, _, _, _, _)
WalkPath_unguarded(current, path, i, ref, walked) ==
    IF i > Len(path) THEN
        IF current.kind = "undefined"
        THEN [Thrown("$ref not found: " \o ref) EXCEPT !.walked = walked]
        ELSE [Returned(current) EXCEPT !.walked = walked]
    ELSE WalkPath_unguarded(Get(current, path[i]), path, i + 1, ref, walked + 1)

\* the for loop of resolveRef over path[i..]; walked counts the reads of the document
RECURSIVE WalkPath(_, _, _, _, _)
WalkPath(current, path, i, ref, walked) ==
    IF i > Len(path) THEN
        IF current.kind = "undefined"
        THEN [Thrown("$ref not found: " \o ref) EXCEPT !.walked = walked]
        ELSE [Returned(current) EXCEPT !.walked = walked]
    ELSE IF ~IsObjectLike(current)
        THEN [Thrown("Invalid $ref path: " \o ref) EXCEPT !.walked = walked]
    ELSE WalkPath(Get(current, path[i]), path, i + 1, ref, walked + 1)

resolveRef_swapped(d, ref) ==
    IF ~StartsWith(ref, "#/") THEN
        IF StartsWith(ref, "http://") \/ StartsWith(ref, "https://")
        THEN Thrown(ExternalFileRefMessage(ref))
        ELSE Thrown(UrlRefMessage(ref))
    ELSE WalkPath(d, Split(Slice(ref, 3), "/"), 1, ref, 0)

resolveRef(d, ref) ==
    IF ~StartsWith(ref, "#/") THEN
        IF StartsWith(ref, "http://") \/ StartsWith(ref, "https://")
        THEN Thrown(UrlRefMessage(ref))
        ELSE Thrown(ExternalFileRefMessage(ref))
    ELSE WalkPath(d, Split(Slice(ref, 3), "/"), 1, ref, 0)

isRef(v) == IsObj(v) /\ HasKey(v, "$ref") /\ Get(v, "$ref").kind = "string"

resolveIfRef(d, v) ==
    IF isRef(v) THEN resolveRef(d, Get(v, "$ref").s) ELSE Returned(v)

(***************************************************************************)
(* Naming helpers of the type generator.                                   *)
(***************************************************************************)
\* str.replace(/[-_]([a-z])/g, (_, char) => char.toUpperCase())
RECURSIVE toCamelCase(_)
toCamelCase(str) ==
    IF str = "" THEN ""
    ELSE IF Len(str) >= 2 /\ Head(str) \in {"-", "_"} /\ IsLower(CharAt(str, 2))
        THEN CharToUpper(CharAt(str, 2)) \o toCamelCase(Slice(str, 3))
    ELSE Head(str) \o toCamelCase(Tail(str))

toPascalCase(str) ==
    LET camel == toCamelCase(str)
    IN  IF camel = "" THEN "" ELSE CharToUpper(Head(camel)) \o Tail(camel)

IsIdentStart(c) == IsLower(c) \/ IsUpper(c) \/ c \in {"_", "$"}

IsIdentPart(c) == IsIdentStart(c) \/ IsDigit(c)

\* /^[a-zA-Z_$][a-zA-Z0-9_$]*$/
isValidIdentifier(str) ==
    /\ str # ""
    /\ IsIdentStart(Head(str))
    /\ \A i \in 2..Len(str) : IsIdentPart(CharAt(str, i))

\* name.replace(/'/g, "\\'")
RECURSIVE EscapeQuotes(_)
EscapeQuotes(name) ==
    IF name = "" THEN ""
    ELSE (IF Head(name) = "'" THEN "\\'" ELSE Head(name)) \o EscapeQuotes(Tail(name))

formatPropertyName(name) ==
    IF isValidIdentifier(name) THEN name ELSE "'" \o EscapeQuotes(name) \o "'"

(***************************************************************************)
(* Enumerations.  An enum value is a JSON string or number.                *)
(***************************************************************************)
\* String(value)
StringOf(v) ==
    CASE v.kind = "string" -> v.s
      [] v.kind = "number" -> v.n
      [] v.kind = "boolean" -> IF v.b THEN "true" ELSE "false"
      [] OTHER -> v.kind

\* /^-?\d+$/
IsIntegerText(s) ==
    LET digits == IF s # "" /\ Head(s) = "-" THEN Tail(s) ELSE s
    IN  digits # "" /\ \A i \in 1..Len(digits) : IsDigit(CharAt(digits, i))

\* /^[a-z_-]+$/i
IsWordText(s) ==
    /\ s # ""
    /\ \A i \in 1..Len(s) :
          LET c == CharAt(s, i) IN IsLower(c) \/ IsUpper(c) \/ c \in {"_", "-"}

\* strValue.replace('-', 'Neg'): the first occurrence only
ReplaceFirstMinus(s) ==
    LET i == IndexOfFrom(s, "-", 1)
    IN  IF i = 0 THEN s ELSE SubSeq(s, 1, i - 1) \o "Neg" \o Slice(s, i + 1)

\* strValue.replace(/[^a-zA-Z0-9_]/g, '_')
RECURSIVE CleanKey(_)
CleanKey(s) ==
    IF s = "" THEN ""
    ELSE (IF IsLower(Head(s)) \/ IsUpper(Head(s)) \/ IsDigit(Head(s)) \/ Head(s) = "_"
          THEN Head(s) ELSE "_") \o CleanKey(Tail(s))

enumValueToKey_bare(value) ==
    LET strValue == StringOf(value)
        cleaned == CleanKey(strValue)
    IN  IF value.kind = "number" \/ IsIntegerText(strValue)
            THEN ReplaceFirstMinus(strValue)
        ELSE IF IsWordText(strValue) THEN toPascalCase(strValue)
        ELSE IF cleaned # "" /\ IsDigit(Head(cleaned)) THEN "_" \o cleaned
        ELSE toPascalCase(cleaned)

enumValueToKey(value) ==
    LET strValue == StringOf(value)
        cleaned == CleanKey(strValue)
    IN  IF value.kind = "number" \/ IsIntegerText(strValue)
            THEN "_" \o ReplaceFirstMinus(strValue)
        ELSE IF IsWordText(strValue) THEN toPascalCase(strValue)
        ELSE IF cleaned # "" /\ IsDigit(Head(cleaned)) THEN "_" \o cleaned
        ELSE toPascalCase(cleaned)

formatEnumValue(value) ==
    IF value.kind = "number" THEN StringOf(value) ELSE "'" \o StringOf(value) \o "'"

\* values.map(f).join(sep)
RECURSIVE MapJoin(_, _, _)
MapJoin(f(_), values, sep) ==
    IF values = <<>> THEN ""
    ELSE IF Len(values) = 1 THEN f(values[1])
    ELSE f(values[1]) \o sep \o MapJoin(f, Tail(values), sep)

ConstObjectEntry(v) == "  " \o enumValueToKey(v) \o ": " \o formatEnumValue(v)

generateConstObjectEnum(name, values) ==
    "export const " \o name \o " = {\n" \o MapJoin(ConstObjectEntry, values, ",\n")
    \o ",\n} as const;\n\nexport type " \o name \o " = typeof " \o name
    \o "[keyof typeof " \o name \o "];"

generateUnionEnum(name, values) ==
    "export type " \o name \o " = " \o MapJoin(formatEnumValue, values, " | ") \o ";"

TsEnumEntry(v) == "  " \o enumValueToKey(v) \o " = " \o formatEnumValue(v)

generateTsEnum(name, values) ==
    "export enum " \o name \o " {\n" \o MapJoin(TsEnumEntry, values, ",\n") \o ",\n}"

generateEnum(name, values, cfg) ==
    CASE cfg.enumType = "constObject" -> generateConstObjectEnum(name, values)
      [] cfg.enumType = "union" -> generateUnionEnum(name, values)
      [] cfg.enumType = "enum" -> generateTsEnum(name, values)

(***************************************************************************)
(* Configuration.  An absent option of Partial<CodegenConfig> is "".       *)
(***************************************************************************)
applyDefaults(cfg) ==
    [dateType |-> IF cfg.dateType = "" THEN "string" ELSE cfg.dateType,
     enumType |-> IF cfg.enumType = "" THEN "constObject" ELSE cfg.enumType,
     propertyNameStyle |->
        IF cfg.propertyNameStyle = "" THEN "original" ELSE cfg.propertyNameStyle,
     nullableType |-> IF cfg.nullableType = "" THEN "null" ELSE cfg.nullableType]

(***************************************************************************)
(* Map<string, DiscriminatorLiteral>: a sequence of [key, value] entries.  *)
(***************************************************************************)
MapHas(m, key) == \E i \in 1..Len(m) : m[i].key = key

MapGet(m, key) == m[CHOOSE i \in 1..Len(m) : m[i].key = key].value

MapSet(m, key, value) ==
    IF MapHas(m, key)
    THEN [i \in 1..Len(m) |-> IF m[i].key = key THEN [key |-> key, value |-> value] ELSE m[i]]
    ELSE Append(m, [key |-> key, value |-> value])

SchemaRefPrefix == "#/components/schemas/"

\* ref.match(/^#\/components\/schemas\/(.+)$/): a match needs one character
\* or more after the prefix (strings of the model hold no line terminator)
MatchesSchemaRef(ref) == StartsWith(ref, SchemaRefPrefix) /\ Len(ref) > Len(SchemaRefPrefix)

\* match[1]
SchemaRefName(ref) == Slice(ref, Len(SchemaRefPrefix) + 1)

(***************************************************************************)
(* The type generator.  A call that mutates ctx takes an environment       *)
(* [ctx, rendered, warnings] and gives a result [ok, text, env, message]:  *)
(* ok = FALSE is a thrown Error with that message.  rendered is the        *)
(* history of the generateProperty calls, warnings that of console.warn.   *)
(***************************************************************************)
Ok(text, env) == [ok |-> TRUE, text |-> text, env |-> env, message |-> ""]

Fail(message, env) == [ok |-> FALSE, text |-> "", env |-> env, message |-> message]

PushInlineEnum_twice(env, name, values) ==
    [env EXCEPT !.ctx.inlineEnums =
        Append(Append(@, [name |-> name, values |-> values]),
               [name |-> name, values |-> values])]

PushInlineEnum(env, name, values) ==
    [env EXCEPT !.ctx.inlineEnums = Append(@, [name |-> name, values |-> values])]

Warn(env, text) == [env EXCEPT !.warnings = Append(@, text)]

\* the value of an optional string argument that was not passed
NoName == ""

\* parentName && propertyName
HasEnumContext(parentName, propertyName) == parentName # "" /\ propertyName # ""

\* new Set(schema.required ?? [])
RequiredSet(schema) ==
    LET required == Get(schema, "required")
    IN  IF IsArr(required)
        THEN {required.elems[i].s : i \in {j \in 1..Len(required.elems) :
                                              required.elems[j].kind = "string"}}
        ELSE {}

\* schema.properties && Object.keys(schema.properties).length > 0
HasProperties(schema) ==
    LET properties == Get(schema, "properties")
    IN  IsObj(properties) /\ Len(properties.entries) > 0

HasAdditionalProps_falseCounts(schema) == Get(schema, "additionalProperties").kind # "undefined"

\* schema.additionalProperties !== undefined && schema.additionalProperties !== false
HasAdditionalProps(schema) ==
    LET ap == Get(schema, "additionalProperties")
    IN  ap.kind # "undefined" /\ ap # JBool(FALSE)

\* 'nullable' in resolved && resolved.nullable === true
IsNullableSchema(resolved) == HasKey(resolved, "nullable") /\ Get(resolved, "nullable") = JBool(TRUE)

RefTypeName_whole(refPath) == refPath

\* match[1] of the $ref branch of schemaToTypeString
RefTypeName(refPath) == SchemaRefName(refPath)

\* optionalMark of generateProperty
PropertyOptional(isRequired, forceRequired) ==
    IF forceRequired \/ isRequired THEN "" ELSE "?"

NullMarker_both(typeStr, isNullable, hasOverride, cfg) ==
    IF isNullable /\ ~hasOverride THEN typeStr \o " | null | undefined" ELSE typeStr

\* fullType of generateProperty
NullMarker(typeStr, isNullable, hasOverride, cfg) ==
    IF isNullable /\ ~hasOverride
    THEN typeStr \o " | " \o (IF cfg.nullableType = "null" THEN "null" ELSE "undefined")
    ELSE typeStr

(***************************************************************************)
(* schemaToTypeString and the functions it is mutually recursive with are  *)
(* the arms of one recursive operator, Generate, which takes the call as a *)
(* record [fn, ...arguments]; the operators named after the functions of   *)
(* the source make that call.                                              *)
(***************************************************************************)
\* the statements after a call that may throw: F(r) unless r is a throw
Then(r, F(_)) == IF r.ok THEN F(r) ELSE r

RECURSIVE Generate(_)

schemaToTypeString(schema, env, parentName, propertyName) ==
    Generate([fn |-> "schemaToTypeString", schema |-> schema, env |-> env,
              parentName |-> parentName, propertyName |-> propertyName])

\* the loops of handleAllOf and handleUnionType: parts.join(sep) of the
\* members from position i on, after the parts already in acc
JoinMembers(members, i, env, sep, acc) ==
    Generate([fn |-> "JoinMembers", members |-> members, i |-> i, env |-> env,
              sep |-> sep, acc |-> acc])

handleAllOf(allOf, env) == JoinMembers(allOf.elems, 1, env, " & ", <<>>)

handleUnionType(schemas, env) == JoinMembers(schemas.elems, 1, env, " | ", <<>>)

\* opts: [propName, propSchema, isRequired, parentName, overrideType,
\* forceRequired]; overrideType is <<>> when undefined, else <<type>>
generateProperty(opts, env) == Generate([fn |-> "generateProperty", opts |-> opts, env |-> env])

\* the for loop of generateProperties from entry i on; props is the array built
PropertiesLoop(entries, i, required, parentName, env, props) ==
    Generate([fn |-> "PropertiesLoop", entries |-> entries, i |-> i, required |-> required,
              parentName |-> parentName, env |-> env, props |-> props])

\* gives the array of property strings in the text field
generateProperties(schema, env, parentName) ==
    IF ~Truthy(Get(schema, "properties")) THEN [Ok("", env) EXCEPT !.text = <<>>]
    ELSE PropertiesLoop(Get(schema, "properties").entries, 1, RequiredSet(schema),
                        parentName, env, <<>>)

generatePropertiesInline(schema, env, parentName) ==
    Then(generateProperties(schema, env, parentName),
         LAMBDA props : Ok(Join(props.text, "; "), props.env))

getAdditionalPropertiesType(additionalProps, env) ==
    IF additionalProps = JBool(TRUE) THEN Ok("unknown", env)
    ELSE IF IsObjectLike(additionalProps)
        THEN schemaToTypeString(additionalProps, env, NoName, NoName)
    ELSE IF additionalProps = JNull
        THEN Fail("TypeError: Cannot read properties of null", env)
    ELSE Ok("unknown", env)

handleObjectType(schema, env, parentName) ==
    Generate([fn |-> "handleObjectType", schema |-> schema, env |-> env,
              parentName |-> parentName])

\* the name a property is emitted under
PropertyTsName(propName, cfg) ==
    formatPropertyName(IF cfg.propertyNameStyle = "camelCase"
                       THEN toCamelCase(propName) ELSE propName)

\* the return statement of generateProperty, and the record of the call
PropertyResult(opts, isNullable, typeStr, tsName, fullType, optionalMark, env) ==
    Ok(tsName \o optionalMark \o ": " \o fullType,
       [env EXCEPT !.rendered =
            Append(@, [propName |-> opts.propName,
                       propSchema |-> opts.propSchema,
                       parentName |-> opts.parentName,
                       isRequired |-> opts.isRequired,
                       hasOverride |-> opts.overrideType # <<>>,
                       isNullable |-> isNullable,
                       typeStr |-> typeStr,
                       fullType |-> fullType,
                       optionalMark |-> optionalMark,
                       text |-> tsName \o optionalMark \o ": " \o fullType])])

\* generateProperty from "Get type string" on
PropertyTyped(opts, isNullable, cfg, typed) ==
    PropertyResult(opts, isNullable, typed.text,
                   PropertyTsName(opts.propName, cfg),
                   NullMarker(typed.text, isNullable, opts.overrideType # <<>>, cfg),
                   PropertyOptional(opts.isRequired, opts.forceRequired),
                   typed.env)

\* the options generateProperties passes for the property propName
PropertyOptions(propName, propSchema, required, parentName, literals) ==
    LET isDiscriminator ==
            /\ parentName # ""
            /\ MapHas(literals, parentName)
            /\ propName = MapGet(literals, parentName).property
    IN  [propName |-> propName,
         propSchema |-> propSchema,
         isRequired |-> propName \in required,
         parentName |-> parentName,
         overrideType |-> IF isDiscriminator
                          THEN <<"'" \o MapGet(literals, parentName).value \o "'">>
                          ELSE <<>>,
         forceRequired |-> isDiscriminator]

Generate(call) ==
    CASE call.fn = "schemaToTypeString" ->
        LET schema == call.schema
            env == call.env
            parentName == call.parentName
            propertyName == call.propertyName
            type == Get(schema, "type")
        IN
        IF isRef(schema) THEN
            IF MatchesSchemaRef(Get(schema, "$ref").s)
            THEN Ok(RefTypeName(Get(schema, "$ref").s), env)
            ELSE Fail("Unsupported $ref format: " \o Get(schema, "$ref").s, env)
        ELSE IF IsArr(Get(schema, "enum")) THEN
            IF HasEnumContext(parentName, propertyName)
            THEN Ok(parentName \o toPascalCase(propertyName),
                    PushInlineEnum(env, parentName \o toPascalCase(propertyName),
                                   Get(schema, "enum").elems))
            ELSE Ok(MapJoin(formatEnumValue, Get(schema, "enum").elems, " | "), env)
        ELSE
            CASE type = JStr("string") ->
                    IF Get(schema, "format") \in {JStr("date"), JStr("date-time")}
                    THEN Ok(env.ctx.config.dateType, env)
                    ELSE Ok("string", env)
              [] type \in {JStr("number"), JStr("integer")} -> Ok("number", env)
              [] type = JStr("boolean") -> Ok("boolean", env)
              [] type = JStr("array") ->
                    IF Truthy(Get(schema, "items"))
                    THEN Then(schemaToTypeString(Get(schema, "items"), env,
                                                 parentName, propertyName),
                              LAMBDA item : Ok(item.text \o "[]", item.env))
                    ELSE Ok("unknown[]", env)
              [] type = JStr("object") -> handleObjectType(schema, env, parentName)
              [] OTHER ->
                    IF Truthy(Get(schema, "allOf"))
                        THEN handleAllOf(Get(schema, "allOf"), env)
                    ELSE IF Truthy(Get(schema, "anyOf"))
                        THEN handleUnionType(Get(schema, "anyOf"), env)
                    ELSE IF Truthy(Get(schema, "oneOf"))
                        THEN handleUnionType(Get(schema, "oneOf"), env)
                    ELSE IF Truthy(Get(schema, "properties"))
                        THEN Then(generatePropertiesInline(schema, env, parentName),
                                  LAMBDA props : Ok("{ " \o props.text \o " }", props.env))
                    ELSE Ok("unknown", env)

      [] call.fn = "JoinMembers" ->
        IF call.i > Len(call.members) THEN Ok(Join(call.acc, call.sep), call.env)
        ELSE Then(schemaToTypeString(call.members[call.i], call.env, NoName, NoName),
                  LAMBDA part : JoinMembers(call.members, call.i + 1, part.env, call.sep,
                                            Append(call.acc, part.text)))

      [] call.fn = "generateProperty" ->
        LET opts == call.opts
            env == call.env
            resolved == resolveIfRef(env.ctx.doc, opts.propSchema)
        IN  IF ~resolved.ok THEN Fail(resolved.message, env)
            ELSE IF ~IsObjectLike(resolved.value)
                THEN Fail("TypeError: Cannot use 'in' operator to search for 'nullable'", env)
            ELSE Then(IF opts.overrideType # <<>>
                      THEN Ok(opts.overrideType[1], env)
                      ELSE schemaToTypeString(opts.propSchema, env, opts.parentName,
                                              opts.propName),
                      LAMBDA typed :
                         PropertyTyped(opts, IsNullableSchema(resolved.value),
                                       env.ctx.config, typed))

      [] call.fn = "PropertiesLoop" ->
        IF call.i > Len(call.entries) THEN [Ok("", call.env) EXCEPT !.text = call.props]
        ELSE Then(generateProperty(
                      PropertyOptions(call.entries[call.i].k, call.entries[call.i].v,
                                      call.required, call.parentName,
                                      call.env.ctx.discriminatorLiterals),
                      call.env),
                  LAMBDA prop : PropertiesLoop(call.entries, call.i + 1, call.required,
                                               call.parentName, prop.env,
                                               Append(call.props, prop.text)))

      [] call.fn = "handleObjectType" ->
        LET schema == call.schema
            env == call.env
            ap == Get(schema, "additionalProperties")
        IN  IF ~HasProperties(schema) /\ HasAdditionalProps(schema) THEN
                Then(getAdditionalPropertiesType(ap, env),
                     LAMBDA valueType :
                        Ok("Record<string, " \o valueType.text \o ">", valueType.env))
            ELSE IF HasProperties(schema) THEN
                Then(generatePropertiesInline(schema, env, call.parentName),
                     LAMBDA props :
                        IF HasAdditionalProps(schema) THEN
                            Then(getAdditionalPropertiesType(ap, props.env),
                                 LAMBDA valueType :
                                    IF valueType.text = "unknown"
                                    THEN Ok("{ " \o props.text \o "; [key: string]: unknown }",
                                            valueType.env)
                                    ELSE Ok("{ " \o props.text \o " } & Record<string, "
                                                \o valueType.text \o ">",
                                            Warn(valueType.env,
                                                 "Warning: Mixed properties with typed additionalProperties may have type conflicts")))
                        ELSE Ok("{ " \o props.text \o " }", props.env))
            ELSE Ok("Record<string, unknown>", env)

\* the first loop of generateAllOfInterface: the names of the reference
\* members whose pointer matches, in member order
RECURSIVE AllOfRefs(_)
AllOfRefs(members) ==
    IF members = <<>> THEN <<>>
    ELSE (IF isRef(Head(members)) /\ MatchesSchemaRef(Get(Head(members), "$ref").s)
          THEN <<SchemaRefName(Get(Head(members), "$ref").s)>> ELSE <<>>)
         \o AllOfRefs(Tail(members))

\* the inline members, in member order
RECURSIVE AllOfInline(_)
AllOfInline(members) ==
    IF members = <<>> THEN <<>>
    ELSE (IF isRef(Head(members)) THEN <<>> ELSE <<Head(members)>>)
         \o AllOfInline(Tail(members))

\* lines.push(`  ${prop};`) for every prop
RECURSIVE PropLines(_)
PropLines(props) ==
    IF props = <<>> THEN <<>> ELSE <<"  " \o Head(props) \o ";">> \o PropLines(Tail(props))

\* generateAllOfInterface after the members are separated
AllOfDeclaration(name, allOf, refs, inlineSchemas, env) ==
    IF Len(refs) = 1 /\ Len(inlineSchemas) <= 1 THEN
        IF ~(Len(inlineSchemas) = 1 /\ HasProperties(inlineSchemas[1]))
        THEN Ok("export interface " \o name \o " extends " \o refs[1] \o " {}", env)
        ELSE Then(generateProperties(inlineSchemas[1], env, name),
                  LAMBDA props :
                     Ok(Join(<<"export interface " \o name \o " extends " \o refs[1] \o " {">>
                             \o PropLines(props.text) \o <<"}">>, "\n"),
                        props.env))
    ELSE Then(handleAllOf(allOf,
                          IF Len(refs) > 1
                          THEN Warn(env, "Warning: " \o name
                                    \o " uses multiple $refs in allOf, using intersection type")
                          ELSE env),
              LAMBDA intersectionType :
                 Ok("export type " \o name \o " = " \o intersectionType.text \o ";",
                    intersectionType.env))

generateAllOfInterface(name, allOf, env) ==
    AllOfDeclaration(name, allOf, AllOfRefs(allOf.elems), AllOfInline(allOf.elems), env)

\* `export type ${name} = ${typed};`
TypeAlias(name, typed) ==
    Then(typed, LAMBDA t : Ok("export type " \o name \o " = " \o t.text \o ";", t.env))

\* generateInterface from "const hasProperties" on
ObjectDeclaration(name, schema, ap, env) ==
    IF ~HasProperties(schema) /\ HasAdditionalProps(schema) THEN
        Then(getAdditionalPropertiesType(ap, env),
             LAMBDA valueType :
                Ok("export type " \o name \o " = Record<string, " \o valueType.text \o ">;",
                   valueType.env))
    ELSE IF ~HasProperties(schema) THEN Ok("export interface " \o name \o " {}", env)
    ELSE Then(generateProperties(schema, env, name),
              LAMBDA props :
                 IF HasAdditionalProps(schema) THEN
                     Then(getAdditionalPropertiesType(ap, props.env),
                          LAMBDA valueType :
                             IF valueType.text = "unknown"
                             THEN Ok(Join(<<"export interface " \o name \o " {">>
                                          \o PropLines(props.text)
                                          \o <<"  [key: string]: unknown;", "}">>, "\n"),
                                     valueType.env)
                             ELSE Ok("export type " \o name \o " = {\n"
                                         \o Join(PropLines(props.text), "\n")
                                         \o "\n} & Record<string, " \o valueType.text \o ">;",
                                     Warn(valueType.env, "Warning: " \o name
                                          \o " has mixed properties with typed additionalProperties, using intersection type")))
                 ELSE Ok(Join(<<"export interface " \o name \o " {">>
                              \o PropLines(props.text) \o <<"}">>, "\n"),
                         props.env))

generateInterface_allOfFirst(name, schema, env) ==
    IF isRef(schema) THEN TypeAlias(name, schemaToTypeString(schema, env, NoName, NoName))
    ELSE IF Truthy(Get(schema, "allOf"))
        THEN generateAllOfInterface(name, Get(schema, "allOf"), env)
    ELSE IF IsArr(Get(schema, "enum"))
        THEN Ok(generateEnum(name, Get(schema, "enum").elems, env.ctx.config), env)
    ELSE IF Truthy(Get(schema, "oneOf"))
        THEN TypeAlias(name, handleUnionType(Get(schema, "oneOf"), env))
    ELSE IF Truthy(Get(schema, "anyOf"))
        THEN TypeAlias(name, handleUnionType(Get(schema, "anyOf"), env))
    ELSE IF Get(schema, "type") # JStr("object") /\ ~Truthy(Get(schema, "properties"))
        THEN TypeAlias(name, schemaToTypeString(schema, env, name, NoName))
    ELSE ObjectDeclaration(name, schema, Get(schema, "additionalProperties"), env)

generateInterface(name, schema, env) ==
    IF isRef(schema) THEN TypeAlias(name, schemaToTypeString(schema, env, NoName, NoName))
    ELSE IF IsArr(Get(schema, "enum"))
        THEN Ok(generateEnum(name, Get(schema, "enum").elems, env.ctx.config), env)
    ELSE IF Truthy(Get(schema, "allOf"))
        THEN generateAllOfInterface(name, Get(schema, "allOf"), env)
    ELSE IF Truthy(Get(schema, "oneOf"))
        THEN TypeAlias(name, handleUnionType(Get(schema, "oneOf"), env))
    ELSE IF Truthy(Get(schema, "anyOf"))
        THEN TypeAlias(name, handleUnionType(Get(schema, "anyOf"), env))
    ELSE IF Get(schema, "type") # JStr("object") /\ ~Truthy(Get(schema, "properties"))
        THEN TypeAlias(name, schemaToTypeString(schema, env, name, NoName))
    ELSE ObjectDeclaration(name, schema, Get(schema, "additionalProperties"), env)

(***************************************************************************)
(* The discriminator collector.                                            *)
(***************************************************************************)
\* the loop over Object.entries(mapping): schema name -> discriminator value
RECURSIVE ReverseMapping(_, _)
ReverseMapping(entries, acc) ==
    IF entries = <<>> THEN acc
    ELSE LET value == Head(entries).k
             ref == Head(entries).v.s
         IN  ReverseMapping(Tail(entries),
                            IF MatchesSchemaRef(ref)
                            THEN MapSet(acc, SchemaRefName(ref), value) ELSE acc)

VariantLiteral_upper(reverseMapping, schemaName) ==
    IF MapHas(reverseMapping, schemaName)
    THEN MapGet(reverseMapping, schemaName) ELSE schemaName

\* reverseMapping.get(schemaName) ?? schemaName.toLowerCase()
VariantLiteral(reverseMapping, schemaName) ==
    IF MapHas(reverseMapping, schemaName)
    THEN MapGet(reverseMapping, schemaName) ELSE toLowerCase(schemaName)

\* the loop over the variants of one composition
RECURSIVE VariantsLoop(_, _, _, _)
VariantsLoop(variants, propertyName, reverseMapping, literals) ==
    IF variants = <<>> THEN literals
    ELSE LET variant == Head(variants)
             matched == isRef(variant) /\ MatchesSchemaRef(Get(variant, "$ref").s)
             schemaName == SchemaRefName(Get(variant, "$ref").s)
         IN  VariantsLoop(Tail(variants), propertyName, reverseMapping,
                          IF matched
                          THEN MapSet(literals, schemaName,
                                      [property |-> propertyName,
                                       value |-> VariantLiteral(reverseMapping, schemaName)])
                          ELSE literals)

\* the loop over Object.entries(schemas)
RECURSIVE CollectLoop(_, _)
CollectLoop(entries, literals) ==
    IF entries = <<>> THEN literals
    ELSE
    LET schema == Head(entries).v
        oneOf == Get(schema, "oneOf")
        variants == IF oneOf.kind \in {"undefined", "null"} THEN Get(schema, "anyOf") ELSE oneOf
        discriminator == Get(schema, "discriminator")
        propertyName == Get(discriminator, "propertyName")
        mapping == Get(discriminator, "mapping")
        skip == isRef(schema) \/ ~Truthy(variants) \/ ~Truthy(propertyName)
    IN  CollectLoop(Tail(entries),
                    IF skip THEN literals
                    ELSE VariantsLoop(variants.elems, propertyName.s,
                                      ReverseMapping(IF IsObj(mapping) THEN mapping.entries
                                                     ELSE <<>>, <<>>),
                                      literals))

collectDiscriminatorLiterals(schemas) == CollectLoop(schemas.entries, <<>>)

(***************************************************************************)
(* The client generator (src/codegen/clients.ts).  null is <<>> and a      *)
(* string s is <<s>> where the code has string | null.                     *)
(***************************************************************************)
\* the grave accent that delimits a template literal of the generated code: a
\* string of this module cannot hold the character, the form feed stands for it
Backtick == "\f"

\* the printable characters in code-unit order (double quote and backslash,
\* which no type name holds, left out)
CodeUnits ==
    " !#$%&'()*+,-./0123456789:;<=>?@ABCDEFGHIJKLMNOPQRSTUVWXYZ[]^_" \o Backtick
    \o "abcdefghijklmnopqrstuvwxyz{|}~"

\* a < b in the order Array.prototype.sort uses without a comparator
RECURSIVE StringLess(_, _)
StringLess(a, b) ==
    IF b = "" THEN FALSE
    ELSE IF a = "" THEN TRUE
    ELSE IF Head(a) = Head(b) THEN StringLess(Tail(a), Tail(b))
    ELSE IndexIn(CodeUnits, Head(a)) < IndexIn(CodeUnits, Head(b))

\* array.sort() of an array of strings
RECURSIVE SortStrings(_)
SortStrings(strings) ==
    IF strings = <<>> THEN <<>>
    ELSE LET least == CHOOSE i \in 1..Len(strings) :
                          \A j \in 1..Len(strings) :
                              /\ ~StringLess(strings[j], strings[i])
                              /\ (strings[j] = strings[i] => i <= j)
         IN  <<strings[least]>>
             \o SortStrings([k \in 1..(Len(strings) - 1) |->
                                IF k < least THEN strings[k] ELSE strings[k + 1]])

\* str.replace(pattern, replacement) with a string pattern: the first occurrence
ReplaceFirst(str, pattern, replacement) ==
    IF IndexOfFrom(str, pattern, 1) = 0 THEN str
    ELSE SubSeq(str, 1, IndexOfFrom(str, pattern, 1) - 1) \o replacement
         \o Slice(str, IndexOfFrom(str, pattern, 1) + Len(pattern))

\* path.replace(/[^a-zA-Z0-9]/g, '_')
RECURSIVE ReplaceNonAlphanumeric(_, _)
ReplaceNonAlphanumeric(str, replacement) ==
    IF str = "" THEN ""
    ELSE (IF IsLower(Head(str)) \/ IsUpper(Head(str)) \/ IsDigit(Head(str))
          THEN Head(str) ELSE replacement)
         \o ReplaceNonAlphanumeric(Tail(str), replacement)

\* str.replace(/[^a-z0-9]/g, '-')
RECURSIVE ReplaceNonLowerAlphanumeric(_)
ReplaceNonLowerAlphanumeric(str) ==
    IF str = "" THEN ""
    ELSE (IF IsLower(Head(str)) \/ IsDigit(Head(str)) THEN Head(str) ELSE "-")
         \o ReplaceNonLowerAlphanumeric(Tail(str))

RECURSIVE toUpperCase(_)
toUpperCase(s) ==
    IF s = "" THEN "" ELSE CharToUpper(Head(s)) \o toUpperCase(Tail(s))

\* type.replace(/\[\]$/, '')
StripArraySuffix(type) ==
    IF EndsWith(type, "[]") THEN SubSeq(type, 1, Len(type) - 2) ELSE type

\* /^(string|number|boolean|Record<.+>)$/.test(type)
IsBuiltinType(type) ==
    \/ type \in {"string", "number", "boolean"}
    \/ StartsWith(type, "Record<") /\ EndsWith(type, ">") /\ Len(type) >= 9

HTTP_METHODS == <<"get", "post", "put", "patch", "delete", "head", "options">>

extractRefName(ref) == IF MatchesSchemaRef(ref) THEN <<SchemaRefName(ref)>> ELSE <<>>

RECURSIVE getTypeFromSchema(_, _)
getTypeFromSchema(schema, cfg) ==
    IF ~Truthy(schema) THEN "unknown"
    ELSE IF isRef(schema) THEN
        IF extractRefName(Get(schema, "$ref").s) = <<>> THEN "unknown"
        ELSE extractRefName(Get(schema, "$ref").s)[1]
    ELSE IF Get(schema, "type") = JStr("array") /\ Truthy(Get(schema, "items"))
        THEN getTypeFromSchema(Get(schema, "items"), cfg) \o "[]"
    ELSE CASE Get(schema, "type") = JStr("string") ->
                IF Get(schema, "format") \in {JStr("date"), JStr("date-time")}
                THEN cfg.dateType ELSE "string"
           [] Get(schema, "type") \in {JStr("integer"), JStr("number")} -> "number"
           [] Get(schema, "type") = JStr("boolean") -> "boolean"
           [] Get(schema, "type") = JStr("object") ->
                IF ~Truthy(Get(schema, "properties"))
                THEN "Record<string, unknown>" ELSE "unknown"
           [] OTHER -> "unknown"

successCodes == <<"200", "201", "202", "203", "204">>

\* content['application/json']?.schema
JsonSchemaOf(content) == Get(Get(content, "application/json"), "schema")

\* the for loop of getResponseType from successCodes[i] on
RECURSIVE ResponseLoop(_, _, _)
ResponseLoop(responses, i, cfg) ==
    IF i > Len(successCodes) THEN "void"
    ELSE IF ~Truthy(Get(responses, successCodes[i])) \/ isRef(Get(responses, successCodes[i]))
        THEN ResponseLoop(responses, i + 1, cfg)
    ELSE IF ~Truthy(Get(Get(responses, successCodes[i]), "content"))
        THEN IF successCodes[i] = "204" THEN "void" ELSE ResponseLoop(responses, i + 1, cfg)
    ELSE IF Truthy(JsonSchemaOf(Get(Get(responses, successCodes[i]), "content")))
        THEN getTypeFromSchema(JsonSchemaOf(Get(Get(responses, successCodes[i]), "content")),
                               cfg)
    ELSE ResponseLoop(responses, i + 1, cfg)

getResponseType(responses, cfg) ==
    IF ~Truthy(responses) THEN "void" ELSE ResponseLoop(responses, 1, cfg)

getRequestBodyType(requestBody, cfg) ==
    IF ~Truthy(requestBody) THEN <<>>
    ELSE IF isRef(requestBody) THEN <<"unknown">>
    ELSE IF ~Truthy(Get(requestBody, "content")) THEN <<>>
    ELSE IF Truthy(JsonSchemaOf(Get(requestBody, "content")))
        THEN <<getTypeFromSchema(JsonSchemaOf(Get(requestBody, "content")), cfg)>>
    ELSE <<>>

NonRefParameters_all(parameters) ==
    IF Truthy(parameters) THEN parameters.elems ELSE <<>>

\* the parameters of the list that are no references, in their order
NonRefParameters(parameters) ==
    IF Truthy(parameters) THEN SelectSeq(parameters.elems, LAMBDA param : ~isRef(param))
    ELSE <<>>

\* operation.tags ?? ['default']
TagsOf(operation) ==
    IF Get(operation, "tags").kind \in {"undefined", "null"} THEN <<"default">>
    ELSE [i \in 1..Len(Get(operation, "tags").elems) |-> Get(operation, "tags").elems[i].s]

OperationIdOf_dashed(operation, method, path) ==
    IF Get(operation, "operationId").kind \in {"undefined", "null"}
    THEN method \o ReplaceNonAlphanumeric(path, "-")
    ELSE Get(operation, "operationId").s

\* operation.operationId ?? `${method}${path.replace(/[^a-zA-Z0-9]/g, '_')}`
OperationIdOf(operation, method, path) ==
    IF Get(operation, "operationId").kind \in {"undefined", "null"}
    THEN method \o ReplaceNonAlphanumeric(path, "_")
    ELSE Get(operation, "operationId").s

\* the object pushed by parseOperations for one operation
ParsedOperation(method, path, pathParams, operation, cfg) ==
    [method |-> method,
     path |-> path,
     operationId |-> OperationIdOf(operation, method, path),
     tags |-> TagsOf(operation),
     parameters |-> pathParams \o NonRefParameters(Get(operation, "parameters")),
     requestBody |-> IF Truthy(Get(operation, "requestBody"))
                        /\ ~isRef(Get(operation, "requestBody"))
                     THEN Get(operation, "requestBody") ELSE JUndefined,
     responseType |-> getResponseType(Get(operation, "responses"), cfg),
     hasRequestBody |-> Truthy(Get(operation, "requestBody"))
                        /\ ~isRef(Get(operation, "requestBody"))]

\* the loop over HTTP_METHODS from position i on, for one path item
RECURSIVE MethodsLoop(_, _, _, _)
MethodsLoop(path, pathItem, i, cfg) ==
    IF i > Len(HTTP_METHODS) THEN <<>>
    ELSE (IF Truthy(Get(pathItem, HTTP_METHODS[i]))
          THEN <<ParsedOperation(HTTP_METHODS[i], path,
                                 NonRefParameters(Get(pathItem, "parameters")),
                                 Get(pathItem, HTTP_METHODS[i]), cfg)>>
          ELSE <<>>)
         \o MethodsLoop(path, pathItem, i + 1, cfg)

\* the loop over Object.entries(doc.paths ?? {})
RECURSIVE PathsLoop(_, _)
PathsLoop(entries, cfg) ==
    IF entries = <<>> THEN <<>>
    ELSE (IF Truthy(Head(entries).v)
          THEN MethodsLoop(Head(entries).k, Head(entries).v, 1, cfg) ELSE <<>>)
         \o PathsLoop(Tail(entries), cfg)

parseOperations(d, cfg) ==
    IF IsObj(Get(d, "paths")) THEN PathsLoop(Get(d, "paths").entries, cfg) ELSE <<>>

\* the loop over op.tags from position i on
RECURSIVE TagsLoop(_, _, _)
TagsLoop(op, i, groups) ==
    IF i > Len(op.tags) THEN groups
    ELSE TagsLoop(op, i + 1,
                  MapSet(groups, op.tags[i],
                         Append(IF MapHas(groups, op.tags[i])
                                THEN MapGet(groups, op.tags[i]) ELSE <<>>, op)))

RECURSIVE GroupLoop(_, _)
GroupLoop(operations, groups) ==
    IF operations = <<>> THEN groups
    ELSE GroupLoop(Tail(operations), TagsLoop(Head(operations), 1, groups))

groupOperationsByTag(operations) == GroupLoop(operations, <<>>)

\* the name of a parameter as an identifier of the generated code
ParameterName(param, cfg) ==
    IF cfg.propertyNameStyle = "camelCase"
    THEN toCamelCase(Get(param, "name").s) ELSE Get(param, "name").s

\* p.schema ? getTypeFromSchema(p.schema, config) : 'unknown'
ParameterType(param, cfg) ==
    IF Truthy(Get(param, "schema")) THEN getTypeFromSchema(Get(param, "schema"), cfg)
    ELSE "unknown"

ParametersIn(params, where) ==
    SelectSeq(params, LAMBDA p : Get(p, "in") = JStr(where))

QueryProperty(param, cfg) ==
    ParameterName(param, cfg)
    \o (IF Truthy(Get(param, "required")) THEN "" ELSE "?")
    \o ": " \o ParameterType(param, cfg)

generateParamsType(params, cfg) ==
    IF ParametersIn(params, "query") = <<>> THEN <<>>
    ELSE <<"{ "
           \o Join([i \in 1..Len(ParametersIn(params, "query")) |->
                       QueryProperty(ParametersIn(params, "query")[i], cfg)], "; ")
           \o " }">>

\* the loop replacing the placeholders of the path parameters
RECURSIVE PathExpression(_, _, _)
PathExpression(pathExpr, pathParams, cfg) ==
    IF pathParams = <<>> THEN pathExpr
    ELSE PathExpression(ReplaceFirst(pathExpr,
                                     "{" \o Get(Head(pathParams), "name").s \o "}",
                                     "${" \o ParameterName(Head(pathParams), cfg) \o "}"),
                        Tail(pathParams), cfg)

MethodArguments_bodyFirst(pathParams, bodyType, paramsType, cfg) ==
    (IF bodyType # <<>> THEN <<"body: " \o bodyType[1]>> ELSE <<>>)
    \o [i \in 1..Len(pathParams) |->
           ParameterName(pathParams[i], cfg) \o ": " \o ParameterType(pathParams[i], cfg)]
    \o (IF paramsType # <<>> THEN <<"params?: " \o paramsType[1]>> ELSE <<>>)

\* the args array of generateMethod
MethodArguments(pathParams, bodyType, paramsType, cfg) ==
    [i \in 1..Len(pathParams) |->
        ParameterName(pathParams[i], cfg) \o ": " \o ParameterType(pathParams[i], cfg)]
    \o (IF bodyType # <<>> THEN <<"body: " \o bodyType[1]>> ELSE <<>>)
    \o (IF paramsType # <<>> THEN <<"params?: " \o paramsType[1]>> ELSE <<>>)

\* optsArg of generateMethod
RequestOptions(bodyType, paramsType) ==
    IF bodyType = <<>> /\ paramsType = <<>> THEN ""
    ELSE ", { "
         \o Join((IF paramsType # <<>> THEN <<"query: params">> ELSE <<>>)
                 \o (IF bodyType # <<>> THEN <<"body">> ELSE <<>>), ", ")
         \o " }"

\* pathString of generateMethod
PathString(op, pathParams, cfg) ==
    IF Len(pathParams) > 0 THEN Backtick \o PathExpression(op.path, pathParams, cfg) \o Backtick
    ELSE "'" \o op.path \o "'"

generateMethod(op, cfg) ==
    Join(<<"  async " \o op.operationId \o "("
              \o Join(MethodArguments(ParametersIn(op.parameters, "path"),
                                      getRequestBodyType(op.requestBody, cfg),
                                      generateParamsType(op.parameters, cfg), cfg), ", ")
              \o "): Promise<" \o op.responseType \o "> {",
           "    return this.request<" \o op.responseType \o ">('"
              \o toUpperCase(op.method) \o "', "
              \o PathString(op, ParametersIn(op.parameters, "path"), cfg)
              \o RequestOptions(getRequestBodyType(op.requestBody, cfg),
                                generateParamsType(op.parameters, cfg))
              \o ");",
           "  }">>, "\n")

\* Set.prototype.add on a Set kept in insertion order
SetAdd(set, value) ==
    IF \E i \in 1..Len(set) : set[i] = value THEN set ELSE Append(set, value)

\* the body of the loop collecting the types one operation uses
TypesOfOperation(op, cfg, typesUsed) ==
    LET withResponse ==
            IF op.responseType \notin {"void", "unknown"}
               /\ ~IsBuiltinType(StripArraySuffix(op.responseType))
            THEN SetAdd(typesUsed, StripArraySuffix(op.responseType)) ELSE typesUsed
    IN  IF getRequestBodyType(op.requestBody, cfg) \notin {<<>>, <<"unknown">>}
        THEN SetAdd(withResponse, StripArraySuffix(getRequestBodyType(op.requestBody, cfg)[1]))
        ELSE withResponse

RECURSIVE TypesUsedLoop(_, _, _)
TypesUsedLoop(operations, cfg, typesUsed) ==
    IF operations = <<>> THEN typesUsed
    ELSE TypesUsedLoop(Tail(operations), cfg, TypesOfOperation(Head(operations), cfg, typesUsed))

\* config.clientSuffix ?? 'Client'; an absent clientSuffix is ""
SuffixOf(cfg) == IF cfg.clientSuffix = "" THEN "Client" ELSE cfg.clientSuffix

\* gives the text returned and the set typesUsed as the call leaves it
generateClientClass(tag, operations, cfg, typesUsed) ==
    [text |-> Join(<<"export class " \o toPascalCase(tag) \o SuffixOf(cfg)
                        \o " extends Base" \o SuffixOf(cfg) \o " {">>
                   \o [i \in 1..Len(operations) |-> generateMethod(operations[i], cfg)]
                   \o <<"}">>, "\n"),
     typesUsed |-> TypesUsedLoop(operations, cfg, typesUsed)]

\* `${tag.toLowerCase().replace(/[^a-z0-9]/g, '-')}-client.ts`
ClientFileName(tag) == ReplaceNonLowerAlphanumeric(toLowerCase(tag)) \o "-client.ts"

\* the content of the file of one client
ClientFile(client, cfg) ==
    Join(<<"// Generated by OpenCodegen - do not edit manually", "",
           "import { Base" \o SuffixOf(cfg) \o " } from './base.js';">>
         \o (IF Len(client.typesUsed) > 0
             THEN <<"import { " \o Join(SortStrings(client.typesUsed), ", ")
                    \o " } from './types.js';">>
             ELSE <<>>)
         \o <<"", client.text, "">>, "\n")

\* the loop of generateClients over the groups from position i on
RECURSIVE ClientsLoop(_, _, _, _)
ClientsLoop(grouped, i, cfg, fileMap) ==
    IF i > Len(grouped) THEN fileMap
    ELSE ClientsLoop(grouped, i + 1, cfg,
                     MapSet(fileMap, ClientFileName(grouped[i].key),
                            ClientFile(generateClientClass(grouped[i].key, grouped[i].value,
                                                           cfg, <<>>), cfg)))

generateClients(d, cfg) ==
    ClientsLoop(groupOperationsByTag(parseOperations(d, cfg)), 1, cfg, <<>>)

(***************************************************************************)
(* Documents and configurations the passes are run on.                     *)
(***************************************************************************)
ShapeNames == <<"Pet", "Cat", "Dog">>

Ref(name) == JObj(<<KV("$ref", JStr(SchemaRefPrefix \o name))>>)

TypeOf(t) == JObj(<<KV("type", JStr(t))>>)

NullableOf(t) == JObj(<<KV("type", JStr(t)), KV("nullable", JBool(TRUE))>>)

EnumOf(values) == JObj(<<KV("type", JStr("string")), KV("enum", JArr(values))>>)

ObjectOf(required, properties) ==
    JObj(<<KV("type", JStr("object")), KV("required", JArr(required)),
           KV("properties", JObj(properties))>>)

ArrayOf(items) == JObj(<<KV("type", JStr("array")), KV("items", items)>>)

SBasic ==
    ObjectOf(<<JStr("id")>>,
             <<KV("id", TypeOf("integer")),
               KV("name", NullableOf("string")),
               KV("status", EnumOf(<<JStr("active"), JStr("inactive")>>))>>)

SCyclic ==
    ObjectOf(<<>>,
             <<KV("kind", TypeOf("string")),
               KV("owner", Ref("Cat")),
               KV("pets", ArrayOf(Ref("Pet")))>>)

SUnion ==
    JObj(<<KV("oneOf", JArr(<<Ref("Cat"), Ref("Dog")>>)),
           KV("discriminator",
              JObj(<<KV("propertyName", JStr("kind")),
                     KV("mapping", JObj(<<KV("c", JStr(SchemaRefPrefix \o "Cat"))>>))>>))>>)

SAnyOf ==
    JObj(<<KV("anyOf", JArr(<<Ref("Cat"), TypeOf("string")>>)),
           KV("discriminator", JObj(<<KV("propertyName", JStr("status"))>>))>>)

SExtends ==
    JObj(<<KV("allOf", JArr(<<Ref("Pet"),
                              ObjectOf(<<JStr("next")>>,
                                       <<KV("next", Ref("Cat")),
                                         KV("kind", NullableOf("string"))>>)>>))>>)

SIntersect ==
    JObj(<<KV("allOf", JArr(<<ObjectOf(<<>>, <<KV("kind", TypeOf("string"))>>),
                              ObjectOf(<<>>, <<KV("status",
                                                  EnumOf(<<JStr("on"), JStr("off")>>))>>)>>))>>)

SNested ==
    ObjectOf(<<JStr("status")>>,
             <<KV("kind", NullableOf("string")),
               KV("status", EnumOf(<<JStr("a"), JStr("b")>>)),
               KV("inner", ObjectOf(<<>>,
                                    <<KV("kind", NullableOf("integer")),
                                      KV("status", EnumOf(<<JStr("x"), JStr("y")>>))>>))>>)

SEnum == JObj(<<KV("type", JStr("string")), KV("enum", JArr(<<JStr("in_progress"), JNum("1")>>))>>)

SAlias == Ref("Dog")

SDict == JObj(<<KV("type", JStr("object")), KV("additionalProperties", Ref("Dog"))>>)

SList == ArrayOf(Ref("Dog"))

SExternal ==
    ObjectOf(<<>>, <<KV("e", JObj(<<KV("$ref", JStr("./common.yaml#/X"))>>))>>)

SNames ==
    ObjectOf(<<JStr("@type")>>,
             <<KV("created_at", JObj(<<KV("type", JStr("string")),
                                       KV("format", JStr("date-time"))>>)),
               KV("@type", TypeOf("string")),
               KV("friend", Ref("Cat"))>>)

SNullable == NullableOf("string")

SchemaPool ==
    {SBasic, SCyclic, SUnion, SAnyOf, SExtends, SIntersect, SNested, SEnum, SAlias,
     SDict, SList, SExternal, SNames, SNullable}

\* query or path parameter objects
Parameter(name, where, required, schema) ==
    JObj(<<KV("name", JStr(name)), KV("in", JStr(where)), KV("required", JBool(required)),
           KV("schema", schema)>>)

\* a response or request body with JSON content
JsonContent(schema) ==
    JObj(<<KV("content",
              JObj(<<KV("application/json", JObj(<<KV("schema", schema)>>))>>))>>)

NoPaths == JObj(<<>>)

PetPaths ==
    JObj(<<KV("/pets/{pet_id}",
              JObj(<<KV("parameters",
                        JArr(<<Parameter("pet_id", "path", TRUE, TypeOf("integer"))>>)),
                     KV("get",
                        JObj(<<KV("operationId", JStr("getPet")),
                               KV("tags", JArr(<<JStr("pets")>>)),
                               KV("parameters",
                                  JArr(<<Parameter("page_size", "query", FALSE,
                                                   TypeOf("integer"))>>)),
                               KV("responses",
                                  JObj(<<KV("200", JsonContent(Ref("Pet")))>>))>>)),
                     KV("post",
                        JObj(<<KV("tags", JArr(<<JStr("Store Admin"), JStr("pets")>>)),
                               KV("requestBody", JsonContent(ArrayOf(Ref("Cat")))),
                               KV("responses",
                                  JObj(<<KV("204",
                                            JObj(<<KV("description",
                                                      JStr("updated"))>>))>>))>>))>>))>>)

PathTables == {NoPaths, PetPaths}

\* the document holding the schemas, named by position, and the paths
DocWith(schemas, paths) ==
    JObj(<<KV("openapi", JStr("3.0.0")),
           KV("info", JObj(<<KV("title", JStr("Test")), KV("version", JStr("1.0.0"))>>)),
           KV("paths", paths),
           KV("components",
              JObj(<<KV("schemas",
                        JObj([i \in 1..Len(schemas) |-> KV(ShapeNames[i], schemas[i])]))>>))>>)

DocOf(schemas) == DocWith(schemas, NoPaths)

Documents ==
    {DocOf(schemas) : schemas \in UNION {[1..n -> SchemaPool] : n \in 0..MaxShapes}}

EmptyConfig == [dateType |-> "", enumType |-> "", propertyNameStyle |-> "", nullableType |-> ""]

Configs ==
    {EmptyConfig,
     [EmptyConfig EXCEPT !.nullableType = "undefined"],
     [EmptyConfig EXCEPT !.propertyNameStyle = "camelCase", !.enumType = "union"],
     [EmptyConfig EXCEPT !.dateType = "Date", !.enumType = "enum", !.nullableType = "null"]}

(***************************************************************************)
(* generateTypes, one pass per element of Passes.                          *)
(***************************************************************************)
Passes == {1, 2}

NoContext ==
    [doc |-> JUndefined, config |-> applyDefaults(EmptyConfig),
     inlineEnums |-> <<>>, discriminatorLiterals |-> <<>>]

\* doc.components?.schemas
SchemasOf(d) == Get(Get(d, "components"), "schemas")

\* !schemas || Object.keys(schemas).length === 0
NoSchemas(d) == ~Truthy(SchemasOf(d)) \/ (IsObj(SchemasOf(d)) /\ Len(SchemasOf(d).entries) = 0)

NewContext_kept(d, cfg) ==
    [doc |-> d, config |-> applyDefaults(cfg),
     inlineEnums |-> ctx[2].inlineEnums,
     discriminatorLiterals |-> collectDiscriminatorLiterals(SchemasOf(d))]

NewContext_shared(d, cfg) ==
    [doc |-> d, config |-> applyDefaults(cfg),
     inlineEnums |-> ctx[1].inlineEnums,
     discriminatorLiterals |-> collectDiscriminatorLiterals(SchemasOf(d))]

\* the ctx literal of generateTypes
NewContext(d, cfg) ==
    [doc |-> d, config |-> applyDefaults(cfg),
     inlineEnums |-> <<>>,
     discriminatorLiterals |-> collectDiscriminatorLiterals(SchemasOf(d))]

\* parts.push(generateEnum(name, values, fullConfig)); parts.push('') for every inline enum
RECURSIVE InlineEnumParts(_, _)
InlineEnumParts(inlineEnums, cfg) ==
    IF inlineEnums = <<>> THEN <<>>
    ELSE <<generateEnum(Head(inlineEnums).name, Head(inlineEnums).values, cfg), "">>
         \o InlineEnumParts(Tail(inlineEnums), cfg)

\* parts.push(iface); parts.push('') for every interface
RECURSIVE InterfaceParts(_)
InterfaceParts(ifaces) ==
    IF ifaces = <<>> THEN <<>> ELSE <<Head(ifaces), "">> \o InterfaceParts(Tail(ifaces))

OutputParts_schemasFirst(inlineEnums, ifaces, cfg) ==
    <<"// Generated by OpenCodegen - do not edit manually", "">>
    \o <<"// Schemas">> \o InterfaceParts(ifaces)
    \o (IF Len(inlineEnums) > 0
        THEN <<"// Inline enums">> \o InlineEnumParts(inlineEnums, cfg) ELSE <<>>)

\* the parts array of generateTypes
OutputParts(inlineEnums, ifaces, cfg) ==
    <<"// Generated by OpenCodegen - do not edit manually", "">>
    \o (IF Len(inlineEnums) > 0
        THEN <<"// Inline enums">> \o InlineEnumParts(inlineEnums, cfg) ELSE <<>>)
    \o <<"// Schemas">> \o InterfaceParts(ifaces)

\* the calls of generateProperty made under the declaration of shape
Tagged(calls, shape) ==
    [i \in 1..Len(calls) |-> [shape |-> shape, call |-> calls[i]]]

StartGenerateTypes(r) ==
    /\ pc[r] = "start"
    /\ IF NoSchemas(doc[r])
       THEN /\ output' = [output EXCEPT ![r] = "// No schemas found in OpenAPI spec\n"]
            /\ pc' = [pc EXCEPT ![r] = "done"]
            /\ UNCHANGED <<ctx, idx>>
       ELSE /\ ctx' = [ctx EXCEPT ![r] = NewContext(doc[r], config[r])]
            /\ idx' = [idx EXCEPT ![r] = 1]
            /\ pc' = [pc EXCEPT ![r] = "loop"]
            /\ UNCHANGED output
    /\ UNCHANGED <<doc, config, interfaces, error, rendered, warnings, clientVars, callVars>>

GenerateNextInterface(r) ==
    /\ pc[r] = "loop"
    /\ idx[r] <= Len(SchemasOf(doc[r]).entries)
    /\ \E entry \in {SchemasOf(doc[r]).entries[idx[r]]} :
       \E res \in {generateInterface(entry.k, entry.v,
                                    [ctx |-> ctx[r], rendered |-> <<>>, warnings |-> <<>>])} :
           /\ ctx' = [ctx EXCEPT ![r] = res.env.ctx]
           /\ rendered' = [rendered EXCEPT ![r] = @ \o Tagged(res.env.rendered, entry.k)]
           /\ warnings' = [warnings EXCEPT ![r] = @ \o res.env.warnings]
           /\ IF res.ok
              THEN /\ interfaces' = [interfaces EXCEPT ![r] = Append(@, res.text)]
                   /\ idx' = [idx EXCEPT ![r] = @ + 1]
                   /\ UNCHANGED <<pc, error>>
              ELSE /\ pc' = [pc EXCEPT ![r] = "error"]
                   /\ error' = [error EXCEPT ![r] = res.message]
                   /\ UNCHANGED <<interfaces, idx>>
    /\ UNCHANGED <<doc, config, output, clientVars, callVars>>

BuildOutput(r) ==
    /\ pc[r] = "loop"
    /\ idx[r] > Len(SchemasOf(doc[r]).entries)
    /\ output' = [output EXCEPT ![r] =
                    Join(OutputParts(ctx[r].inlineEnums, interfaces[r], ctx[r].config), "\n")]
    /\ pc' = [pc EXCEPT ![r] = "done"]
    /\ UNCHANGED <<doc, config, idx, ctx, interfaces, error, rendered, warnings, clientVars,
                   callVars>>

NoResolveCall == [pc |-> "idle", doc |-> JUndefined, ref |-> "", result |-> Thrown("")]

NoEnumCall == [pc |-> "idle", name |-> "", values |-> <<>>, config |-> EmptyConfig, result |-> ""]

NoTypeCall ==
    [pc |-> "idle", schema |-> JUndefined, parentName |-> "", propertyName |-> "",
     before |-> <<>>, result |-> Ok("", [ctx |-> NoContext, rendered |-> <<>>, warnings |-> <<>>])]

InitPasses(active) ==
    /\ pc = [r \in Passes |-> IF r \in active THEN "start" ELSE "idle"]
    /\ idx = [r \in Passes |-> 0]
    /\ ctx = [r \in Passes |-> NoContext]
    /\ interfaces = [r \in Passes |-> <<>>]
    /\ output = [r \in Passes |-> ""]
    /\ error = [r \in Passes |-> ""]
    /\ rendered = [r \in Passes |-> <<>>]
    /\ warnings = [r \in Passes |-> <<>>]
    /\ files = [r \in Passes |-> <<>>]
    /\ clientOperations = [r \in Passes |-> <<>>]
    /\ clientGroups = [r \in Passes |-> <<>>]

\* one pass over one document
Init ==
    /\ \E d \in Documents, c \in Configs :
          /\ doc = [r \in Passes |-> IF r = 1 THEN d ELSE DocOf(<<>>)]
          /\ config = [r \in Passes |-> IF r = 1 THEN c ELSE EmptyConfig]
    /\ InitPasses({1})
    /\ clientPc = [r \in Passes |-> "idle"]
    /\ resolveCall = NoResolveCall
    /\ enumCall = NoEnumCall
    /\ typeCall = NoTypeCall

Next ==
    \E r \in Passes :
        \/ StartGenerateTypes(r)
        \/ GenerateNextInterface(r)
        \/ BuildOutput(r)

Spec == Init /\ [][Next]_vars

(***************************************************************************)
(* Two generation runs in one process: each pass is a call of              *)
(* generateTypes followed by a call of generateClients, and the steps of   *)
(* the two passes interleave.                                              *)
(***************************************************************************)
PairPool == {SBasic, SNested, SEnum}

\* a union with a discriminator, and its variant
VariantDocument ==
    DocOf(<<SUnion, ObjectOf(<<>>, <<KV("kind", TypeOf("string"))>>)>>)

PairDocuments ==
    {DocWith(schemas, paths) :
        schemas \in UNION {[1..n -> PairPool] : n \in 0..MaxPairShapes},
        paths \in PathTables}
    \cup {VariantDocument}

\* complete CodegenConfig objects; an absent clientSuffix is ""
PairConfigs ==
    {[dateType |-> "string", enumType |-> "constObject", propertyNameStyle |-> "camelCase",
      nullableType |-> "null", clientSuffix |-> ""],
     [dateType |-> "Date", enumType |-> "union", propertyNameStyle |-> "original",
      nullableType |-> "undefined", clientSuffix |-> "Api"]}

GenerateClients(r) ==
    /\ clientPc[r] = "start"
    /\ pc[r] \in {"done", "error"}
    /\ clientOperations' = [clientOperations EXCEPT ![r] = parseOperations(doc[r], config[r])]
    /\ clientGroups' = [clientGroups EXCEPT ![r] = groupOperationsByTag(clientOperations'[r])]
    /\ files' = [files EXCEPT ![r] = generateClients(doc[r], config[r])]
    /\ clientPc' = [clientPc EXCEPT ![r] = "done"]
    /\ UNCHANGED <<typeVars, callVars>>

InitPair ==
    /\ \E d1 \in PairDocuments, d2 \in PairDocuments, c \in PairConfigs :
          /\ doc = [r \in Passes |-> IF r = 1 THEN d1 ELSE d2]
          /\ config = [r \in Passes |-> c]
    /\ InitPasses(Passes)
    /\ clientPc = [r \in Passes |-> "start"]
    /\ resolveCall = NoResolveCall
    /\ enumCall = NoEnumCall
    /\ typeCall = NoTypeCall

NextPair ==
    \E r \in Passes :
        \/ StartGenerateTypes(r)
        \/ GenerateNextInterface(r)
        \/ BuildOutput(r)
        \/ GenerateClients(r)

SpecPair == InitPair /\ [][NextPair]_vars

(***************************************************************************)
(* One generation run over a document with operations: generateTypes       *)
(* followed by generateClients.                                            *)
(***************************************************************************)
\* a response with a description only
Described(text) == JObj(<<KV("description", JStr(text))>>)

\* a response whose only content is text/plain
TextContent ==
    JObj(<<KV("content",
              JObj(<<KV("text/plain", JObj(<<KV("schema", TypeOf("string"))>>))>>))>>)

PetPath == PetPaths.entries[1]

StorePath ==
    KV("/store/order-items",
       JObj(<<KV("get",
                 JObj(<<KV("responses",
                           JObj(<<KV("200", Described("ok")),
                                  KV("201", JsonContent(ArrayOf(Ref("Pet"))))>>))>>)),
              KV("put",
                 JObj(<<KV("operationId", JStr("putItems")),
                        KV("tags", JArr(<<JStr("store")>>)),
                        KV("requestBody", JsonContent(TypeOf("string"))),
                        KV("responses",
                           JObj(<<KV("206", JsonContent(Ref("Dog")))>>))>>))>>))

HealthPath ==
    KV("/health",
       JObj(<<KV("get",
                 JObj(<<KV("operationId", JStr("health")), KV("tags", JArr(<<>>))>>)),
              KV("delete",
                 JObj(<<KV("tags", JArr(<<JStr("misc")>>)),
                        KV("parameters",
                           JArr(<<Parameter("force", "query", TRUE, TypeOf("boolean"))>>)),
                        KV("requestBody",
                           JObj(<<KV("$ref", JStr("#/components/requestBodies/Purge"))>>)),
                        KV("responses",
                           JObj(<<KV("200", TextContent),
                                  KV("202", JsonContent(TypeOf("boolean")))>>))>>))>>))

UserPath ==
    KV("/users/{user-id}/pets/{pet_id}",
       JObj(<<KV("patch",
                 JObj(<<KV("operationId", JStr("updateUserPet")),
                        KV("tags", JArr(<<JStr("users")>>)),
                        KV("parameters",
                           JArr(<<Parameter("user-id", "path", TRUE, TypeOf("string")),
                                  Parameter("pet_id", "path", TRUE, TypeOf("integer")),
                                  Parameter("dry_run", "query", FALSE, TypeOf("boolean")),
                                  Parameter("since", "query", TRUE,
                                            JObj(<<KV("type", JStr("string")),
                                                   KV("format", JStr("date-time"))>>))>>)),
                        KV("requestBody", JsonContent(Ref("Pet"))),
                        KV("responses",
                           JObj(<<KV("200",
                                     JObj(<<KV("$ref",
                                               JStr("#/components/responses/Ok"))>>)),
                                  KV("203", JsonContent(TypeOf("object")))>>))>>))>>))

DogPath ==
    KV("/dogs",
       JObj(<<KV("get",
                 JObj(<<KV("tags", JArr(<<JStr("pets"), JStr("dogs")>>)),
                        KV("responses",
                           JObj(<<KV("204", JsonContent(Ref("Dog")))>>))>>)),
              KV("head",
                 JObj(<<KV("tags", JArr(<<JStr("dogs")>>)),
                        KV("responses",
                           JObj(<<KV("200",
                                     JsonContent(ArrayOf(TypeOf("string"))))>>))>>))>>))

PathItemPool == {PetPath, StorePath, HealthPath, UserPath, DogPath}

\* the paths objects of at most MaxPaths distinct entries of the pool
ClientPathTables ==
    {JObj(entries) :
        entries \in UNION {{e \in [1..n -> PathItemPool] :
                               \A i, j \in 1..n : e[i] = e[j] => i = j} : n \in 0..MaxPaths}}

ClientDocuments == {DocWith(<<SBasic>>, paths) : paths \in ClientPathTables}

ClientConfigs ==
    PairConfigs
    \cup {[dateType |-> "string", enumType |-> "union", propertyNameStyle |-> "original",
           nullableType |-> "null", clientSuffix |-> ""]}

InitClients ==
    /\ \E d \in ClientDocuments, c \in ClientConfigs :
          /\ doc = [r \in Passes |-> IF r = 1 THEN d ELSE DocOf(<<>>)]
          /\ config = [r \in Passes |-> IF r = 1 THEN c ELSE EmptyConfig]
    /\ InitPasses({1})
    /\ clientPc = [r \in Passes |-> IF r = 1 THEN "start" ELSE "idle"]
    /\ resolveCall = NoResolveCall
    /\ enumCall = NoEnumCall
    /\ typeCall = NoTypeCall

SpecClients == InitClients /\ [][NextPair]_vars

(***************************************************************************)
(* One pass over a document whose operations declare parameters at both    *)
(* levels, by reference, under names of one identifier, or for a           *)
(* placeholder that occurs twice, or use inline schemas as types.          *)
(***************************************************************************)
ParameterRef(name) == JObj(<<KV("$ref", JStr("#/components/parameters/" \o name))>>)

PetResponses == JObj(<<KV("200", JsonContent(Ref("Pet")))>>)

ItemPath ==
    KV("/items/{item_id}",
       JObj(<<KV("parameters",
                 JArr(<<Parameter("item_id", "path", TRUE, TypeOf("integer")),
                        ParameterRef("Trace"),
                        Parameter("limit", "query", FALSE, TypeOf("integer"))>>)),
              KV("get",
                 JObj(<<KV("operationId", JStr("getItem")),
                        KV("tags", JArr(<<JStr("items")>>)),
                        KV("parameters",
                           JArr(<<ParameterRef("Page"),
                                  Parameter("item_id", "path", TRUE, TypeOf("string")),
                                  Parameter("limit", "query", TRUE, TypeOf("string"))>>)),
                        KV("responses", PetResponses)>>)),
              KV("put",
                 JObj(<<KV("operationId", JStr("putItem")),
                        KV("tags", JArr(<<JStr("items")>>)),
                        KV("responses", PetResponses)>>))>>))

TwicePath ==
    KV("/mirror/{id}/copy/{id}",
       JObj(<<KV("get",
                 JObj(<<KV("operationId", JStr("mirror")),
                        KV("tags", JArr(<<JStr("items")>>)),
                        KV("parameters",
                           JArr(<<Parameter("id", "path", TRUE, TypeOf("integer"))>>)),
                        KV("responses", PetResponses)>>))>>))

CollidePath ==
    KV("/pairs/{pair_id}/{pair-id}",
       JObj(<<KV("parameters", JArr(<<ParameterRef("Trace")>>)),
              KV("post",
                 JObj(<<KV("operationId", JStr("pair")),
                        KV("tags", JArr(<<JStr("pair ops"), JStr("pair-ops")>>)),
                        KV("parameters",
                           JArr(<<Parameter("pair_id", "path", TRUE, TypeOf("integer")),
                                  Parameter("pair-id", "path", TRUE, TypeOf("string"))>>)),
                        KV("responses", PetResponses)>>))>>))

SearchPath ==
    KV("/search",
       JObj(<<KV("post",
                 JObj(<<KV("operationId", JStr("search")),
                        KV("tags", JArr(<<JStr("items")>>)),
                        KV("parameters",
                           JArr(<<Parameter("status", "query", FALSE,
                                            EnumOf(<<JStr("on"), JStr("off")>>))>>)),
                        KV("requestBody",
                           JsonContent(ObjectOf(<<JStr("id")>>,
                                                <<KV("id", TypeOf("integer"))>>))),
                        KV("responses", JObj(<<KV("200", JsonContent(SDict))>>))>>))>>))

OverridePool == {PetPath, ItemPath, TwicePath, CollidePath, SearchPath}

OverridePathTables ==
    {JObj(entries) :
        entries \in UNION {{e \in [1..n -> OverridePool] :
                               \A i, j \in 1..n : e[i] = e[j] => i = j} : n \in 0..MaxPaths}}

OverrideDocuments == {DocWith(<<SBasic>>, paths) : paths \in OverridePathTables}

InitOverride ==
    /\ \E d \in OverrideDocuments, c \in ClientConfigs :
          /\ doc = [r \in Passes |-> IF r = 1 THEN d ELSE DocOf(<<>>)]
          /\ config = [r \in Passes |-> IF r = 1 THEN c ELSE EmptyConfig]
    /\ InitPasses({1})
    /\ clientPc = [r \in Passes |-> IF r = 1 THEN "start" ELSE "idle"]
    /\ resolveCall = NoResolveCall
    /\ enumCall = NoEnumCall
    /\ typeCall = NoTypeCall

SpecOverride == InitOverride /\ [][NextPair]_vars

(***************************************************************************)
(* One pass over a document whose shapes match several rules of            *)
(* generateInterface, or hold a reference in an unsupported form.          *)
(***************************************************************************)
UnsupportedPointers == {"./common.yaml#/X", "#/definitions/X"}

RefTo(pointer) == JObj(<<KV("$ref", JStr(pointer))>>)

Extra == ObjectOf(<<>>, <<KV("extra", TypeOf("string"))>>)

\* shapes that hold the reference u as an alias, a property, an array item
\* or a member of a composition
ShapesHolding(u) ==
    {u,
     ObjectOf(<<>>, <<KV("e", u)>>),
     ObjectOf(<<>>, <<KV("list", ArrayOf(u))>>),
     ArrayOf(u),
     JObj(<<KV("oneOf", JArr(<<Ref("Dog"), u>>))>>),
     JObj(<<KV("anyOf", JArr(<<u>>))>>),
     JObj(<<KV("allOf", JArr(<<u>>))>>),
     JObj(<<KV("allOf", JArr(<<u, Extra>>))>>),
     JObj(<<KV("allOf", JArr(<<Ref("Dog"), u>>))>>),
     JObj(<<KV("allOf", JArr(<<Ref("Dog"), u, Extra>>))>>)}

IdProperty == JObj(<<KV("id", TypeOf("integer"))>>)

\* shapes that match one or more rules of generateInterface
FormShapes ==
    {JObj(<<KV("$ref", JStr(SchemaRefPrefix \o "Dog")), KV("enum", JArr(<<JStr("a")>>))>>),
     JObj(<<KV("enum", JArr(<<JStr("a"), JStr("b")>>)), KV("allOf", JArr(<<Ref("Dog")>>))>>),
     JObj(<<KV("enum", JArr(<<JStr("a"), JNum("2")>>)), KV("type", JStr("object")),
            KV("properties", IdProperty)>>),
     JObj(<<KV("type", JStr("object")), KV("properties", IdProperty),
            KV("allOf", JArr(<<Ref("Dog")>>))>>),
     JObj(<<KV("allOf", JArr(<<Ref("Dog"), Ref("Cat")>>)),
            KV("oneOf", JArr(<<Ref("Dog")>>))>>),
     JObj(<<KV("allOf", JArr(<<Ref("Dog"), Extra>>)), KV("anyOf", JArr(<<Ref("Cat")>>))>>),
     JObj(<<KV("oneOf", JArr(<<Ref("Dog"), Ref("Cat")>>)),
            KV("anyOf", JArr(<<Ref("Cat")>>))>>),
     JObj(<<KV("anyOf", JArr(<<Ref("Dog"), Ref("Cat")>>)), KV("type", JStr("object")),
            KV("properties", IdProperty)>>),
     JObj(<<KV("oneOf", JArr(<<Ref("Dog")>>)), KV("type", JStr("string"))>>),
     TypeOf("string"),
     TypeOf("integer"),
     ArrayOf(Ref("Dog")),
     JObj(<<>>),
     JObj(<<KV("properties", IdProperty)>>),
     JObj(<<KV("type", JStr("string")), KV("properties", IdProperty)>>),
     ObjectOf(<<JStr("id")>>, <<KV("id", TypeOf("integer"))>>),
     TypeOf("object"),
     SDict,
     SEnum}

\* compositions of supported references and inline members
AllOfShapes ==
    {JObj(<<KV("allOf", JArr(<<>>))>>),
     JObj(<<KV("allOf", JArr(<<Ref("Dog")>>))>>),
     JObj(<<KV("allOf", JArr(<<Extra>>))>>),
     JObj(<<KV("allOf", JArr(<<Extra, Ref("Dog")>>))>>),
     JObj(<<KV("allOf", JArr(<<Ref("Dog"), TypeOf("string")>>))>>),
     JObj(<<KV("allOf", JArr(<<Extra, ObjectOf(<<JStr("id")>>, IdProperty.entries)>>))>>),
     JObj(<<KV("allOf", JArr(<<Ref("Dog"), Extra,
                               ObjectOf(<<JStr("id")>>, IdProperty.entries)>>))>>),
     JObj(<<KV("allOf", JArr(<<Ref("Cat"), Extra, Ref("Dog")>>))>>)}

FormPool ==
    FormShapes \cup AllOfShapes
    \cup UNION {ShapesHolding(RefTo(p)) : p \in UnsupportedPointers}

FormDocuments ==
    {DocOf(schemas) : schemas \in UNION {[1..n -> FormPool] : n \in 1..MaxFormShapes}}

InitForms ==
    /\ \E d \in FormDocuments, c \in Configs :
          /\ doc = [r \in Passes |-> IF r = 1 THEN d ELSE DocOf(<<>>)]
          /\ config = [r \in Passes |-> IF r = 1 THEN c ELSE EmptyConfig]
    /\ InitPasses({1})
    /\ clientPc = [r \in Passes |-> "idle"]
    /\ resolveCall = NoResolveCall
    /\ enumCall = NoEnumCall
    /\ typeCall = NoTypeCall

SpecForms == InitForms /\ [][Next]_vars

(***************************************************************************)
(* One call of resolveRef.                                                 *)
(***************************************************************************)
PointerPrefixes ==
    {"", "#", "#/", "/", "./", "http://", "https://", "http:/", "https:/", "HTTP://",
     "ftp://", "#http://"}

TailAlphabet == {"a", "/", "#"}

\* the strings of at most n characters of TailAlphabet
RECURSIVE Tails(_)
Tails(n) ==
    IF n = 0 THEN {""}
    ELSE Tails(n - 1) \cup {t \o c : t \in Tails(n - 1), c \in TailAlphabet}

KnownPointers ==
    {"#/info/title", "#/info/title/x", "#/components/schemas/Pet",
     "#/components/schemas/Cat", "#/paths", "../common.yaml#/components/schemas/Pet",
     "https://example.com/schemas/pet.json",
     "#/components/schemas/Pet/required/0", "#/components/schemas/Pet/required/1",
     "#/components/schemas/Pet/required/0/x", "#/components/schemas/Pet/properties/id/type"}

Pointers == {p \o t : p \in PointerPrefixes, t \in Tails(MaxTail)} \cup KnownPointers

ResolveDocuments == {DocOf(<<>>), DocOf(<<SBasic>>)}

ResolveRefCall ==
    /\ resolveCall.pc = "call"
    /\ resolveCall' = [resolveCall EXCEPT
                          !.pc = "returned",
                          !.result = resolveRef(resolveCall.doc, resolveCall.ref)]
    /\ UNCHANGED <<typeVars, clientVars, enumCall, typeCall>>

InitResolve ==
    /\ \E d \in ResolveDocuments, p \in Pointers :
          resolveCall = [pc |-> "call", doc |-> d, ref |-> p, result |-> Thrown("")]
    /\ doc = [r \in Passes |-> DocOf(<<>>)]
    /\ config = [r \in Passes |-> EmptyConfig]
    /\ InitPasses({})
    /\ clientPc = [r \in Passes |-> "idle"]
    /\ enumCall = NoEnumCall
    /\ typeCall = NoTypeCall

NextResolve == ResolveRefCall

SpecResolve == InitResolve /\ [][NextResolve]_vars

(***************************************************************************)
(* One call of generateEnum.                                               *)
(***************************************************************************)
EnumValuePool ==
    {JStr("active"), JStr("in_progress"), JStr("in-progress"), JStr("not-set"),
     JStr("Top_level"), JStr("a b"),
     JStr("3d"), JStr("42"), JStr("-7"), JNum("1"), JNum("-5"), JNum("1.5")}

EnumStyles == {"constObject", "union", "enum"}

GenerateEnumCall ==
    /\ enumCall.pc = "call"
    /\ enumCall' = [enumCall EXCEPT
                       !.pc = "returned",
                       !.result = generateEnum(enumCall.name, enumCall.values,
                                               enumCall.config)]
    /\ UNCHANGED <<typeVars, clientVars, resolveCall, typeCall>>

InitEnum ==
    /\ \E values \in UNION {[1..n -> EnumValuePool] : n \in 1..MaxEnumValues},
          style \in EnumStyles :
          enumCall = [pc |-> "call", name |-> "Status", values |-> values,
                      config |-> [applyDefaults(EmptyConfig) EXCEPT !.enumType = style],
                      result |-> ""]
    /\ doc = [r \in Passes |-> DocOf(<<>>)]
    /\ config = [r \in Passes |-> EmptyConfig]
    /\ InitPasses({})
    /\ clientPc = [r \in Passes |-> "idle"]
    /\ resolveCall = NoResolveCall
    /\ typeCall = NoTypeCall

NextEnum == GenerateEnumCall

SpecEnum == InitEnum /\ [][NextEnum]_vars

(***************************************************************************)
(* One call of schemaToTypeString.                                         *)
(***************************************************************************)
\* the node inside depth arrays
RECURSIVE Nested(_, _)
Nested(node, depth) == IF depth = 0 THEN node ELSE ArrayOf(Nested(node, depth - 1))

TypeNodes ==
    {EnumOf(<<JStr("on"), JStr("off")>>), EnumOf(<<JStr("in_progress"), JNum("1")>>),
     JObj(<<KV("enum", JArr(<<JNum("-5")>>))>>), TypeOf("string"), Ref("Dog")}

\* the properties objects and the additionalProperties values of object nodes
ObjectProperties ==
    {JUndefined, JObj(<<>>),
     JObj(<<KV("id", TypeOf("integer")), KV("tag", TypeOf("string"))>>)}

FreeForms ==
    {JUndefined, JBool(FALSE), JBool(TRUE), JObj(<<>>), TypeOf("string"), Ref("Dog"),
     ArrayOf(Ref("Dog"))}

\* the object node with these properties and this additionalProperties value
ObjectNode(properties, additional) ==
    JObj(<<KV("type", JStr("object")), KV("required", JArr(<<JStr("id")>>))>>
         \o (IF properties = JUndefined THEN <<>> ELSE <<KV("properties", properties)>>)
         \o (IF additional = JUndefined THEN <<>>
             ELSE <<KV("additionalProperties", additional)>>))

ObjectNodes ==
    {ObjectNode(properties, additional) :
        properties \in ObjectProperties, additional \in FreeForms}

TypeSchemas ==
    {Nested(node, depth) : node \in TypeNodes \cup ObjectNodes, depth \in 0..MaxArrayDepth}

\* the entries ctx.inlineEnums holds when the call is made
EarlierEnums == {<<>>, <<[name |-> "PetStatus", values |-> <<JStr("on")>>]>>}

SchemaToTypeStringCall ==
    /\ typeCall.pc = "call"
    /\ typeCall' = [typeCall EXCEPT
                       !.pc = "returned",
                       !.result = schemaToTypeString(
                                      typeCall.schema,
                                      [ctx |-> [NewContext(DocOf(<<>>), EmptyConfig)
                                                    EXCEPT !.inlineEnums = typeCall.before],
                                       rendered |-> <<>>, warnings |-> <<>>],
                                      typeCall.parentName, typeCall.propertyName)]
    /\ UNCHANGED <<typeVars, clientVars, resolveCall, enumCall>>

InitTypeString ==
    /\ \E schema \in TypeSchemas, parentName \in {NoName, "Pet"},
          propertyName \in {NoName, "status", "pet_status"}, before \in EarlierEnums :
          typeCall = [NoTypeCall EXCEPT !.pc = "call", !.schema = schema,
                                        !.parentName = parentName,
                                        !.propertyName = propertyName, !.before = before]
    /\ doc = [r \in Passes |-> DocOf(<<>>)]
    /\ config = [r \in Passes |-> EmptyConfig]
    /\ InitPasses({})
    /\ clientPc = [r \in Passes |-> "idle"]
    /\ resolveCall = NoResolveCall
    /\ enumCall = NoEnumCall

NextTypeString == SchemaToTypeStringCall

SpecTypeString == InitTypeString /\ [][NextTypeString]_vars


(***************************************************************************)
(* What the claims read off a document and off the history of a pass.      *)
(***************************************************************************)
\* the names of the named shapes of d, as a set and in table order
ShapeKeys(d) ==
    IF IsObj(SchemasOf(d))
    THEN {SchemasOf(d).entries[i].k : i \in 1..Len(SchemasOf(d).entries)} ELSE {}

ShapeKeySeq(d) == [i \in 1..Len(SchemasOf(d).entries) |-> SchemasOf(d).entries[i].k]

\* every $ref pointer held anywhere inside the JSON value v
RECURSIVE RefPointers(_)
RefPointers(v) ==
    IF IsObj(v)
    THEN (IF isRef(v) THEN {Get(v, "$ref").s} ELSE {})
         \cup UNION {RefPointers(v.entries[i].v) : i \in 1..Len(v.entries)}
    ELSE IF IsArr(v) THEN UNION {RefPointers(v.elems[i]) : i \in 1..Len(v.elems)}
    ELSE {}

\* the shape names the references inside v point at
RefTargets(v) == {SchemaRefName(p) : p \in {q \in RefPointers(v) : MatchesSchemaRef(q)}}

\* every reference of the table points at a shape of the table
Resolvable(d) ==
    /\ \A p \in RefPointers(SchemasOf(d)) : MatchesSchemaRef(p)
    /\ RefTargets(SchemasOf(d)) \subseteq ShapeKeys(d)

\* the shapes reached from the shapes of S along at most n reference edges
RECURSIVE ReachedFrom(_, _, _)
ReachedFrom(d, S, n) ==
    IF n = 0 THEN S
    ELSE ReachedFrom(d, S \cup UNION {RefTargets(Get(SchemasOf(d), a)) : a \in S}, n - 1)

\* some shape of d reaches itself along reference edges
Cyclic(d) ==
    \E a \in ShapeKeys(d) :
        a \in ReachedFrom(d, RefTargets(Get(SchemasOf(d), a)), Cardinality(ShapeKeys(d)))

\* the shape has a discriminator entry and prop is the property it names
IsDiscriminatorOf(r, shape, prop) ==
    /\ MapHas(ctx[r].discriminatorLiterals, shape)
    /\ MapGet(ctx[r].discriminatorLiterals, shape).property = prop

IsSchemaRef(schema) == isRef(schema) /\ MatchesSchemaRef(Get(schema, "$ref").s)

IsArrayOfSchemaRef(schema) ==
    /\ ~isRef(schema)
    /\ Get(schema, "type") = JStr("array")
    /\ IsSchemaRef(Get(schema, "items"))

\* the null marker the configuration of pass r asks for
ConfiguredMarker(r) ==
    IF config[r].nullableType = "undefined" THEN " | undefined" ELSE " | null"

EndsWithMarker(type) == EndsWith(type, " | null") \/ EndsWith(type, " | undefined")

\* C1: on a table whose references form a cycle and all point at shapes of
\* the table, generateTypes never fails, its loop index stays within the
\* table (so that the next step is always defined) until it has returned
\* one declaration per shape, and every property whose schema is a
\* reference to N (an array of references to N) has the type expression N
\* (N[]), followed only by the null marker of the configuration; the
\* discriminator override of a variant apart.
C1_CyclicRefsStayBare ==
    (~NoSchemas(doc[1]) /\ Cyclic(doc[1]) /\ Resolvable(doc[1])) =>
        /\ pc[1] # "error"
        /\ pc[1] = "loop" => idx[1] \in 1..(Len(SchemasOf(doc[1]).entries) + 1)
        /\ pc[1] = "done" => Len(interfaces[1]) = Len(SchemasOf(doc[1]).entries)
        /\ \A i \in 1..Len(rendered[1]) :
              LET c == rendered[1][i].call
                  bare == IF IsSchemaRef(c.propSchema)
                          THEN SchemaRefName(Get(c.propSchema, "$ref").s)
                          ELSE SchemaRefName(Get(Get(c.propSchema, "items"), "$ref").s) \o "[]"
              IN  (/\ IsSchemaRef(c.propSchema) \/ IsArrayOfSchemaRef(c.propSchema)
                   /\ ~IsDiscriminatorOf(1, c.parentName, c.propName))
                  => /\ c.typeStr = bare
                     /\ c.fullType \in {bare, bare \o ConfiguredMarker(1)}
                     /\ EndsWith(c.text, ": " \o c.fullType)

C1_Witness ==
    /\ pc[1] = "done"
    /\ doc[1] = DocOf(<<SCyclic, SExtends>>)
    /\ Cyclic(doc[1]) /\ Resolvable(doc[1])
    /\ \E i \in 1..Len(rendered[1]) : rendered[1][i].call.text = "owner?: Cat"
    /\ \E i \in 1..Len(rendered[1]) : rendered[1][i].call.text = "pets?: Pet[]"
    /\ \E i \in 1..Len(rendered[1]) : rendered[1][i].call.text = "next: Cat"

\* C2: a generateTypes run that completes was given no reference to a
\* schema absent from components.schemas, wherever the reference occurs.
C2_DanglingRefFails ==
    pc[1] = "done" => RefTargets(SchemasOf(doc[1])) \subseteq ShapeKeys(doc[1])

\* C3: a rendered property has no optional marker exactly when its name is in
\* the required set of its object or it is the discriminator property of the
\* named shape whose declaration encloses it.
C3_OptionalIffNotRequired ==
    \A i \in 1..Len(rendered[1]) :
        LET e == rendered[1][i]
        IN  (e.call.optionalMark = "")
            <=> (e.call.isRequired \/ IsDiscriminatorOf(1, e.shape, e.call.propName))

OwnPropertySchemas(schema, prop) ==
    {Get(Get(m, "properties"), prop) :
        m \in {schema} \cup (IF IsArr(Get(schema, "allOf"))
                             THEN {Get(schema, "allOf").elems[i] :
                                      i \in 1..Len(Get(schema, "allOf").elems)}
                             ELSE {})}
    \ {JUndefined}

\* C5: in the declaration of a variant recorded with {property p, value v}
\* the variant's own property p is rendered without optional marker and with
\* the type 'v' alone.
C5_VariantLiteralRendered ==
    \A i \in 1..Len(rendered[1]) :
        LET e == rendered[1][i]
        IN  (/\ IsDiscriminatorOf(1, e.shape, e.call.propName)
             /\ e.call.propSchema
                    \in OwnPropertySchemas(Get(SchemasOf(doc[1]), e.shape), e.call.propName))
            => /\ e.call.optionalMark = ""
               /\ e.call.fullType
                    = "'" \o MapGet(ctx[1].discriminatorLiterals, e.shape).value \o "'"

\* a named shape the collector processes
Discriminated(schema) ==
    /\ ~isRef(schema)
    /\ Truthy(Get(schema, "oneOf")) \/ Truthy(Get(schema, "anyOf"))
    /\ Truthy(Get(Get(schema, "discriminator"), "propertyName"))

\* the names of the reference variants of a composition
VariantNames(schema) == RefTargets(Get(schema, "oneOf")) \cup RefTargets(Get(schema, "anyOf"))

\* the mapping keys of the composition whose target resolves to the variant
MappingKeysOf(schema, variant) ==
    LET mapping == Get(Get(schema, "discriminator"), "mapping")
    IN  IF IsObj(mapping)
        THEN {mapping.entries[i].k :
                 i \in {j \in 1..Len(mapping.entries) :
                           mapping.entries[j].v = JStr(SchemaRefPrefix \o variant)}}
        ELSE {}

C7_NoDuplicateInlineEnum ==
    pc[1] = "done" =>
        \A i, j \in 1..Len(ctx[1].inlineEnums) :
            ctx[1].inlineEnums[i].name = ctx[1].inlineEnums[j].name => i = j

Contains(text, part) == IndexOfFrom(text, part, 1) > 0

\* the name a block of the output declares: the third word of its first line
\* that is no comment; <<>> when the block declares nothing, or is the type
\* derived from the const object of the block before it (the two are the
\* one declaration of an enum in the constObject style)
DeclaredName(block) ==
    LET lines == SelectSeq(Split(block, "\n"), LAMBDA line : ~StartsWith(line, "//"))
    IN  IF /\ lines # <<>>
           /\ StartsWith(lines[1], "export ")
           /\ Len(Split(lines[1], " ")) >= 3
           /\ ~Contains(lines[1], " = typeof ")
        THEN <<Split(lines[1], " ")[3]>> ELSE <<>>

\* the names declared by the output, in the order of their declarations
RECURSIVE DeclaredNamesOf(_)
DeclaredNamesOf(blocks) ==
    IF blocks = <<>> THEN <<>>
    ELSE DeclaredName(Head(blocks)) \o DeclaredNamesOf(Tail(blocks))

DeclaredNames(out) == DeclaredNamesOf(Split(out, "\n\n"))

\* the schema is an enumeration, or an array of such
RECURSIVE IsEnumBearing(_)
IsEnumBearing(schema) ==
    /\ ~isRef(schema)
    /\ \/ IsArr(Get(schema, "enum"))
       \/ /\ Get(schema, "type") = JStr("array")
          /\ IsObj(Get(schema, "items"))
          /\ IsEnumBearing(Get(schema, "items"))

\* the names of the inline enums in the order the walk of pass r met them
RECURSIVE DiscoveredEnums(_, _)
DiscoveredEnums(r, calls) ==
    IF calls = <<>> THEN <<>>
    ELSE (IF /\ IsEnumBearing(Head(calls).call.propSchema)
             /\ Head(calls).call.parentName # ""
             /\ ~IsDiscriminatorOf(r, Head(calls).call.parentName, Head(calls).call.propName)
          THEN <<Head(calls).call.parentName \o toPascalCase(Head(calls).call.propName)>>
          ELSE <<>>)
         \o DiscoveredEnums(r, Tail(calls))

\* the shape is declared as an interface or object type with its own property table
DeclaredWithProperties(schema) ==
    /\ ~isRef(schema)
    /\ ~IsArr(Get(schema, "enum"))
    /\ \A k \in {"allOf", "oneOf", "anyOf"} : ~Truthy(Get(schema, k))
    /\ HasProperties(schema)

C10_ForeignPointerFails ==
    (resolveCall.pc = "returned" /\ ~StartsWith(resolveCall.ref, "#/")) =>
        LET message == resolveCall.result.message
            url == \/ StartsWith(resolveCall.ref, "http://")
                   \/ StartsWith(resolveCall.ref, "https://")
        IN  /\ ~resolveCall.result.ok
            /\ resolveCall.result.value = JUndefined
            /\ StartsWith(message, "URL $ref not supported") <=> url
            /\ StartsWith(message, "External file $ref not supported") <=> ~url
            /\ Contains(message, ": " \o resolveCall.ref \o "\n")
            /\ Contains(message, IF url THEN "Consider inlining the referenced schema"
                                 ELSE "Consider merging your OpenAPI files")
            /\ resolveCall.result.walked = 0

C10_Witness ==
    /\ resolveCall.pc = "returned"
    /\ resolveCall.ref = "https://example.com/schemas/pet.json"
    /\ ~resolveCall.result.ok
    /\ StartsWith(resolveCall.result.message,
                  "URL $ref not supported: https://example.com/schemas/pet.json\n")

\* the value the first i segments of the path lead to, read off the document
RECURSIVE ValueAt(_, _, _)
ValueAt(d, path, i) ==
    IF i = 0 THEN d ELSE Get(ValueAt(d, path, i - 1), path[i])

\* C11: a call of resolveRef with a pointer '#/s1/.../sn' returns the value
\* the segments lead to exactly when the parent of every segment is an
\* object or array and the value at the end is not undefined; it throws
\* 'Invalid $ref path' when the parent of some segment is no object or
\* array, and '$ref not found' when every parent is one and only the value
\* at the end is undefined.
C11_InternalPointerWalk ==
    (resolveCall.pc = "returned" /\ StartsWith(resolveCall.ref, "#/")) =>
        LET path == Split(Slice(resolveCall.ref, 3), "/")
            parentsOk == \A i \in 1..Len(path) :
                             IsObjectLike(ValueAt(resolveCall.doc, path, i - 1))
            target == ValueAt(resolveCall.doc, path, Len(path))
            result == resolveCall.result
        IN  /\ result.ok <=> (parentsOk /\ target # JUndefined)
            /\ result.ok => result.value = target
            /\ ~parentsOk => result.message = "Invalid $ref path: " \o resolveCall.ref
            /\ (parentsOk /\ target = JUndefined)
                  => result.message = "$ref not found: " \o resolveCall.ref

C11_Witness ==
    /\ resolveCall.pc = "returned"
    /\ resolveCall.doc = DocOf(<<SBasic>>)
    /\ resolveCall.ref = "#/components/schemas/Cat"
    /\ IsObj(ValueAt(resolveCall.doc, <<"components", "schemas">>, 2))
    /\ resolveCall.result = [Thrown("$ref not found: #/components/schemas/Cat")
                                EXCEPT !.walked = 3]

\* the operation object of the document a parsed operation was built from
OperationOf(d, op) == Get(Get(Get(d, "paths"), op.path), op.method)

IsAlphanumeric(c) == IsLower(c) \/ IsUpper(c) \/ IsDigit(c)

\* str without its characters that are no letters or digits
RECURSIVE Stripped(_)
Stripped(str) ==
    IF str = "" THEN ""
    ELSE (IF IsAlphanumeric(Head(str)) THEN Head(str) ELSE "") \o Stripped(Tail(str))

\* C12 as stated: a declared operationId is kept; an absent one becomes the
\* method followed by the path with every character that is no letter or
\* digit removed, so that the id holds letters and digits only.
C12_SynthesizedIdStripped ==
    clientPc[1] = "done" =>
        \A i \in 1..Len(clientOperations[1]) :
            LET op == clientOperations[1][i]
                declared == Get(OperationOf(doc[1], op), "operationId")
            IN  IF declared.kind = "string" THEN op.operationId = declared.s
                ELSE /\ op.operationId = op.method \o Stripped(op.path)
                     /\ \A k \in 1..Len(op.operationId) :
                           IsAlphanumeric(CharAt(op.operationId, k))

\* C12 amended: a declared operationId is kept; an absent one becomes the
\* method followed by the path with every character that is no letter or
\* digit replaced by an underscore (the id is as long as method and path
\* together), and that id names the method in every client of the operation.
C12_SynthesizedIdReplaced ==
    clientPc[1] = "done" =>
        \A i \in 1..Len(clientOperations[1]) :
            LET op == clientOperations[1][i]
                declared == Get(OperationOf(doc[1], op), "operationId")
            IN  /\ IF declared.kind = "string" THEN op.operationId = declared.s
                   ELSE /\ Len(op.operationId) = Len(op.method) + Len(op.path)
                        /\ StartsWith(op.operationId, op.method)
                        /\ \A k \in 1..Len(op.path) :
                              CharAt(op.operationId, Len(op.method) + k)
                                = IF IsAlphanumeric(CharAt(op.path, k))
                                  THEN CharAt(op.path, k) ELSE "_"
                /\ op.tags # <<>> =>
                      \E f \in 1..Len(files[1]) :
                          Contains(files[1][f].value, "  async " \o op.operationId \o "(")

C12_Witness ==
    /\ clientPc[1] = "done"
    /\ \E i \in 1..Len(clientOperations[1]) :
          /\ clientOperations[1][i].path = "/pets/{pet_id}"
          /\ clientOperations[1][i].operationId = "post_pets__pet_id_"
    /\ \E i \in 1..Len(clientOperations[1]) :
          /\ clientOperations[1][i].path = "/pets/{pet_id}"
          /\ clientOperations[1][i].operationId = "getPet"
    /\ \E f \in 1..Len(files[1]) :
          Contains(files[1][f].value, "  async post_pets__pet_id_(petId: number, body: Cat[])")

\* a three-digit status code of the 2xx class
IsSuccessCode(code) ==
    /\ Len(code) = 3
    /\ Head(code) = "2"
    /\ \A k \in 1..3 : IsDigit(CharAt(code, k))

\* the 2xx codes of the responses object that declare JSON content with a schema
JsonCodes(responses) ==
    IF ~IsObj(responses) THEN {}
    ELSE {responses.entries[i].k :
             i \in {j \in 1..Len(responses.entries) :
                       /\ IsSuccessCode(responses.entries[j].k)
                       /\ ~isRef(responses.entries[j].v)
                       /\ Truthy(JsonSchemaOf(Get(responses.entries[j].v, "content")))}}

\* the responses object has a 204 response without content
HasEmpty204(responses) ==
    /\ Truthy(Get(responses, "204"))
    /\ ~isRef(Get(responses, "204"))
    /\ ~Truthy(Get(Get(responses, "204"), "content"))

\* C13: the response type of an operation is the type of the JSON schema of
\* its lowest 2xx response code that declares application/json content, and
\* void when a 204 without content comes before every such code or when no
\* 2xx response declares JSON content.
C13_ResponseTypeOfFirstJson2xx ==
    clientPc[1] = "done" =>
        \A i \in 1..Len(clientOperations[1]) :
            LET op == clientOperations[1][i]
                responses == Get(OperationOf(doc[1], op), "responses")
                codes == JsonCodes(responses)
                first == CHOOSE c \in codes : \A e \in codes : IndexValue(c) <= IndexValue(e)
            IN  op.responseType
                  = IF codes = {} THEN "void"
                    ELSE IF HasEmpty204(responses) /\ 204 < IndexValue(first) THEN "void"
                    ELSE getTypeFromSchema(
                             JsonSchemaOf(Get(Get(responses, first), "content")), config[1])

\* the tags an operation of the document carries; 'default' when it carries none
CarriedTags(operation) ==
    LET tags == Get(operation, "tags")
    IN  IF IsArr(tags) /\ Len(tags.elems) > 0
        THEN {tags.elems[k].s : k \in 1..Len(tags.elems)} ELSE {"default"}

\* the positions at which the group holds the operation
PositionsIn(group, op) ==
    {k \in 1..Len(group) : group[k].method = op.method /\ group[k].path = op.path}

\* the position of the operation in parse order
ParsePosition(r, op) ==
    CHOOSE i \in 1..Len(clientOperations[r]) :
        /\ clientOperations[r][i].method = op.method
        /\ clientOperations[r][i].path = op.path

\* C14: every parsed operation is held once by the group of each tag it
\* carries and by no other group, an operation with absent or empty tags by
\* the group 'default' alone; a group lists its operations in parse order.
C14_GroupedByEveryTag ==
    clientPc[1] = "done" =>
        /\ \A i \in 1..Len(clientOperations[1]) :
              LET op == clientOperations[1][i]
                  carried == CarriedTags(OperationOf(doc[1], op))
              IN  /\ \A t \in carried :
                        /\ MapHas(clientGroups[1], t)
                        /\ Cardinality(PositionsIn(MapGet(clientGroups[1], t), op)) = 1
                  /\ \A g \in 1..Len(clientGroups[1]) :
                        clientGroups[1][g].key \notin carried
                            => PositionsIn(clientGroups[1][g].value, op) = {}
        /\ \A g \in 1..Len(clientGroups[1]) :
              LET group == clientGroups[1][g].value
              IN  \A a, b \in 1..Len(group) :
                      a < b => ParsePosition(1, group[a]) < ParsePosition(1, group[b])

\* the type expressions the operation refers to: its response type and the
\* type of the JSON schema of its request body
ReferredTypes(op, cfg) ==
    {op.responseType}
    \cup (IF Truthy(op.requestBody) /\ Truthy(JsonSchemaOf(Get(op.requestBody, "content")))
          THEN {getTypeFromSchema(JsonSchemaOf(Get(op.requestBody, "content")), cfg)}
          ELSE {})

\* built-in primitives, open maps, void and unknown
NeverImported(type) ==
    type \in {"string", "number", "boolean", "void", "unknown"} \/ StartsWith(type, "Record<")

\* the named types a client with these operations has to import
ExpectedImports(ops, cfg) ==
    {StripArraySuffix(t) :
        t \in UNION {ReferredTypes(ops[k], cfg) : k \in 1..Len(ops)}}
    \ {t \in {StripArraySuffix(u) :
                  u \in UNION {ReferredTypes(ops[k], cfg) : k \in 1..Len(ops)}} :
          NeverImported(t)}

\* the names between the braces of the import from './types.js', in order
ImportedNames(file) ==
    LET lines == SelectSeq(Split(file, "\n"),
                           LAMBDA line : /\ StartsWith(line, "import { ")
                                         /\ EndsWith(line, " } from './types.js';"))
    IN  IF lines = <<>> THEN <<>>
        ELSE Split(SubSeq(lines[1], Len("import { ") + 1,
                          Len(lines[1]) - Len(" } from './types.js';")), ", ")

\* C15: the names a client file imports from './types.js' are, sorted and
\* without repetition, exactly the named types its operations refer to in
\* a response or request body, a trailing '[]' stripped; no primitive, open
\* map, void or unknown is imported and no imported name ends with '[]'.
C15_ImportsAreTheNamedTypes ==
    clientPc[1] = "done" =>
        \A g \in 1..Len(clientGroups[1]) :
            LET file == MapGet(files[1], ClientFileName(clientGroups[1][g].key))
                names == ImportedNames(file)
            IN  /\ {names[k] : k \in 1..Len(names)}
                      = ExpectedImports(clientGroups[1][g].value, config[1])
                /\ \A k \in 1..(Len(names) - 1) : StringLess(names[k], names[k + 1])
                /\ \A k \in 1..Len(names) :
                      ~NeverImported(names[k]) /\ ~EndsWith(names[k], "[]")

\* the identifier the naming style of the configuration makes of a parameter name
StyledName(name, cfg) ==
    IF cfg.propertyNameStyle = "camelCase" THEN toCamelCase(name) ELSE name

\* the path with the placeholder of every name of the set replaced by the
\* interpolation of its identifier
RECURSIVE Interpolated(_, _, _)
Interpolated(path, names, cfg) ==
    IF path = "" THEN ""
    ELSE IF Head(path) = "{" /\ IndexOfFrom(path, "}", 1) > 0
        THEN LET close == IndexOfFrom(path, "}", 1)
                 name == SubSeq(path, 2, close - 1)
             IN  (IF name \in names THEN "${" \o StyledName(name, cfg) \o "}"
                  ELSE "{" \o name \o "}")
                 \o Interpolated(Slice(path, close + 1), names, cfg)
    ELSE Head(path) \o Interpolated(Tail(path), names, cfg)

\* the two lines of the file that open the method of the operation
MethodLines(file, op) ==
    LET lines == Split(file, "\n")
        at == CHOOSE k \in 1..Len(lines) :
                  StartsWith(lines[k], "  async " \o op.operationId \o "(")
    IN  <<lines[at], lines[at + 1]>>

\* the arguments between the parentheses of a method signature
SignatureArguments(line, op) ==
    LET from == Len("  async " \o op.operationId \o "(") + 1
        to == IndexOfFrom(line, "): Promise<", 1) - 1
    IN  IF to < from THEN <<>> ELSE Split(SubSeq(line, from, to), ", ")

EntryLines(result) ==
    LET lines == SelectSeq(Split(result, "\n"), LAMBDA l : StartsWith(l, "  "))
    IN  [i \in 1..Len(lines) |-> SubSeq(lines[i], 3, Len(lines[i]) - 1)]

\* the sign between the key and the literal of an entry
EntrySign(style) == IF style = "constObject" THEN ": " ELSE " = "

\* the keys of a declaration of the constObject or enum style
KeysOf(result, style) ==
    LET entries == EntryLines(result)
    IN  [i \in 1..Len(entries) |->
            SubSeq(entries[i], 1, IndexOfFrom(entries[i], EntrySign(style), 1) - 1)]

\* the literals of a declaration, in the order of the text
LiteralsOf(result, style) ==
    IF style = "union"
    THEN Split(SubSeq(result, Len("export type Status = ") + 1, Len(result) - 1), " | ")
    ELSE LET entries == EntryLines(result)
         IN  [i \in 1..Len(entries) |->
                 Slice(entries[i],
                       IndexOfFrom(entries[i], EntrySign(style), 1)
                       + Len(EntrySign(style)))]

\* a string of letters, underscores and hyphens only
IsLetterWord(v) ==
    /\ v.kind = "string" /\ v.s # ""
    /\ \A i \in 1..Len(v.s) :
          IsLower(CharAt(v.s, i)) \/ IsUpper(CharAt(v.s, i)) \/ CharAt(v.s, i) \in {"_", "-"}

\* the digits of a value that is a number or a string of digits, and its sign
NumericText(v) == IF v.kind = "number" THEN v.n ELSE v.s

IsNumericValue(v) ==
    \/ v.kind = "number"
    \/ /\ v.kind = "string"
       /\ LET digits == IF StartsWith(v.s, "-") THEN Tail(v.s) ELSE v.s
          IN  digits # "" /\ \A i \in 1..Len(digits) : IsDigit(CharAt(digits, i))

\* C17: the key of an enum value made of letters, underscores and hyphens is
\* its PascalCase transform; the key of a number or of a string of digits is
\* "_" followed by the value with a leading minus written Neg; no key
\* consists of digits only; and in each of the three styles the literals are
\* the values in input order, strings quoted and numbers unquoted.
C17_EnumKeysAndLiterals ==
    enumCall.pc = "returned" =>
        LET style == enumCall.config.enumType
            values == enumCall.values
            keys == KeysOf(enumCall.result, style)
            literals == LiteralsOf(enumCall.result, style)
        IN  /\ literals = [i \in 1..Len(values) |->
                              IF values[i].kind = "number" THEN values[i].n
                              ELSE "'" \o values[i].s \o "'"]
            /\ style # "union" =>
                  /\ Len(keys) = Len(values)
                  /\ \A i \in 1..Len(values) :
                        /\ IsLetterWord(values[i]) => keys[i] = toPascalCase(values[i].s)
                        /\ IsNumericValue(values[i]) =>
                              keys[i] = "_" \o (IF StartsWith(NumericText(values[i]), "-")
                                                THEN "Neg" \o Tail(NumericText(values[i]))
                                                ELSE NumericText(values[i]))
                        /\ \E k \in 1..Len(keys[i]) : ~IsDigit(CharAt(keys[i], k))

C17_Witness ==
    /\ enumCall.pc = "returned"
    /\ enumCall.values = <<JStr("in_progress"), JNum("-5")>>
    /\ enumCall.config.enumType = "enum"
    /\ enumCall.result = "export enum Status {\n  InProgress = 'in_progress',\n  _Neg5 = -5,\n}"

\* the enumeration node under the arrays of a schema, and the number of arrays
RECURSIVE Innermost(_)
Innermost(schema) ==
    IF Get(schema, "type") = JStr("array") /\ ~IsArr(Get(schema, "enum"))
       /\ IsObj(Get(schema, "items"))
    THEN Innermost(Get(schema, "items"))
    ELSE schema

RECURSIVE Brackets(_)
Brackets(schema) ==
    IF Get(schema, "type") = JStr("array") /\ ~IsArr(Get(schema, "enum"))
       /\ IsObj(Get(schema, "items"))
    THEN Brackets(Get(schema, "items")) \o "[]"
    ELSE ""

\* the values as literals, strings quoted, separated by " | "
RECURSIVE LiteralUnion(_)
LiteralUnion(values) ==
    IF values = <<>> THEN ""
    ELSE (IF Head(values).kind = "number" THEN Head(values).n
          ELSE "'" \o Head(values).s \o "'")
         \o (IF Len(values) > 1 THEN " | " ELSE "") \o LiteralUnion(Tail(values))

\* C18: a call of schemaToTypeString on an enumeration node, or on arrays
\* of one, with a parent name and a property name appends exactly one entry
\* to ctx.inlineEnums, named parent name followed by the PascalCase property
\* name and holding the values, and returns that name (followed by [] per
\* array); without the two names it appends nothing and returns the union
\* of the literals.
C18_InlineEnumHoisted ==
    (typeCall.pc = "returned" /\ IsArr(Get(Innermost(typeCall.schema), "enum"))) =>
        LET values == Get(Innermost(typeCall.schema), "enum").elems
            after == typeCall.result.env.ctx.inlineEnums
            name == typeCall.parentName \o toPascalCase(typeCall.propertyName)
        IN  /\ typeCall.result.ok
            /\ IF typeCall.parentName # NoName /\ typeCall.propertyName # NoName
               THEN /\ after = Append(typeCall.before, [name |-> name, values |-> values])
                    /\ typeCall.result.text = name \o Brackets(typeCall.schema)
               ELSE /\ after = typeCall.before
                    /\ typeCall.result.text
                          = LiteralUnion(values) \o Brackets(typeCall.schema)

C18_Witness ==
    /\ typeCall.pc = "returned"
    /\ typeCall.schema = ArrayOf(EnumOf(<<JStr("in_progress"), JNum("1")>>))
    /\ typeCall.parentName = "Pet" /\ typeCall.propertyName = "pet_status"
    /\ typeCall.before # <<>>
    /\ typeCall.result.text = "PetPetStatus[]"
    /\ Len(typeCall.result.env.ctx.inlineEnums) = 2
    /\ typeCall.result.env.ctx.inlineEnums[2]
          = [name |-> "PetPetStatus", values |-> <<JStr("in_progress"), JNum("1")>>]

\* a reference whose pointer is not #/components/schemas/ followed by a name
UnsupportedPointer(node) ==
    /\ IsObj(node)
    /\ Get(node, "$ref").kind = "string"
    /\ ~(/\ StartsWith(Get(node, "$ref").s, "#/components/schemas/")
         /\ Len(Get(node, "$ref").s) > Len("#/components/schemas/"))

\* the members of a composition of a shape
MembersOf(shape, key) == IF IsArr(Get(shape, key)) THEN Get(shape, key).elems ELSE <<>>

\* the shape holds such a reference as alias, array item, member of a
\* composition, property or item of an array property
MeetsUnsupported(shape) ==
    \/ UnsupportedPointer(shape)
    \/ UnsupportedPointer(Get(shape, "items"))
    \/ \E key \in {"oneOf", "anyOf", "allOf"} :
          \E i \in 1..Len(MembersOf(shape, key)) :
              UnsupportedPointer(MembersOf(shape, key)[i])
    \/ /\ IsObj(Get(shape, "properties"))
       /\ \E i \in 1..Len(Get(shape, "properties").entries) :
             LET property == Get(shape, "properties").entries[i].v
             IN  UnsupportedPointer(property) \/ UnsupportedPointer(Get(property, "items"))

\* C19: no declaration is emitted for a named shape that holds a reference
\* in an unsupported form as alias, property, array item or member of a
\* oneOf, anyOf or allOf: the pass ends with an error at that shape.
C19_UnsupportedRefAborts ==
    /\ \A i \in 1..Len(interfaces[1]) :
          ~MeetsUnsupported(SchemasOf(doc[1]).entries[i].v)
    /\ pc[1] = "done" =>
          \A i \in 1..Len(SchemasOf(doc[1]).entries) :
              ~MeetsUnsupported(SchemasOf(doc[1]).entries[i].v)

\* the first rule of the dispatch the shape matches
RuleOf(shape) ==
    IF Get(shape, "$ref").kind = "string" THEN "ref"
    ELSE IF Get(shape, "enum").kind = "array" THEN "enum"
    ELSE IF Get(shape, "allOf").kind = "array" THEN "allOf"
    ELSE IF Get(shape, "oneOf").kind = "array" \/ Get(shape, "anyOf").kind = "array"
        THEN "union"
    ELSE IF Get(shape, "type") # JStr("object") /\ Get(shape, "properties").kind = "undefined"
        THEN "primitive"
    ELSE "object"

\* the name a reference points at
PointedName(node) == Slice(Get(node, "$ref").s, Len("#/components/schemas/") + 1)

\* the names the reference members point at, separated by " | "
RECURSIVE RefUnion(_)
RefUnion(members) ==
    IF members = <<>> THEN ""
    ELSE PointedName(Head(members)) \o (IF Len(members) > 1 THEN " | " ELSE "")
         \o RefUnion(Tail(members))

\* the type expression of a shape that is a primitive, an array of
\* references or of no type
PrimitiveExpression(shape) ==
    CASE Get(shape, "type") = JStr("string") -> "string"
      [] Get(shape, "type") \in {JStr("integer"), JStr("number")} -> "number"
      [] Get(shape, "type") = JStr("boolean") -> "boolean"
      [] Get(shape, "type") = JStr("array") -> PointedName(Get(shape, "items")) \o "[]"
      [] OTHER -> "unknown"

\* the declaration has the form of the rule
HasFormOf(rule, text, name, shape, style) ==
    LET alias == "export type " \o name \o " = "
    IN  CASE rule = "ref" -> text = alias \o PointedName(shape) \o ";"
          [] rule = "enum" ->
                IF style = "constObject"
                    THEN StartsWith(text, "export const " \o name \o " = {\n")
                ELSE IF style = "enum"
                    THEN StartsWith(text, "export enum " \o name \o " {\n")
                ELSE text = alias \o LiteralUnion(Get(shape, "enum").elems) \o ";"
          [] rule = "allOf" ->
                \/ StartsWith(text, "export interface " \o name \o " extends ")
                \/ /\ StartsWith(text, alias)
                   /\ Len(Get(shape, "allOf").elems) > 1 => Contains(text, " & ")
          [] rule = "union" ->
                \E key \in {"oneOf", "anyOf"} :
                    /\ Get(shape, key).kind = "array"
                    /\ text = alias \o RefUnion(Get(shape, key).elems) \o ";"
          [] rule = "primitive" -> text = alias \o PrimitiveExpression(shape) \o ";"
          [] rule = "object" ->
                IF Get(shape, "additionalProperties").kind = "undefined"
                THEN StartsWith(text, "export interface " \o name \o " {")
                ELSE StartsWith(text, alias \o "Record<string, ")

\* C20: every declaration generateInterface emits has the form of the first
\* rule its shape matches, in the order $ref, enum, allOf, oneOf/anyOf,
\* non-object without properties, object.
C20_FirstMatchingRule ==
    \A i \in 1..Len(interfaces[1]) :
        LET entry == SchemasOf(doc[1]).entries[i]
        IN  HasFormOf(RuleOf(entry.v), interfaces[1][i], entry.k, entry.v,
                      ctx[1].config.enumType)

C20_Witness ==
    /\ pc[1] = "done"
    /\ SchemasOf(doc[1]).entries[1].v
          = JObj(<<KV("enum", JArr(<<JStr("a"), JStr("b")>>)),
                   KV("allOf", JArr(<<Ref("Dog")>>))>>)
    /\ ctx[1].config.enumType = "enum"
    /\ interfaces[1][1] = "export enum Pet {\n  A = 'a',\n  B = 'b',\n}"

\* the members of a sequence that are references, and those that are not
ReferenceMembers(members) ==
    SelectSeq(members, LAMBDA m : IsObj(m) /\ Get(m, "$ref").kind = "string")

InlineMembers(members) ==
    SelectSeq(members, LAMBDA m : ~(IsObj(m) /\ Get(m, "$ref").kind = "string"))

\* the declared properties of an inline member
DeclaredProperties(member) ==
    IF IsObj(Get(member, "properties")) THEN Get(member, "properties").entries ELSE <<>>

\* the type expression of a member of a composition
MemberExpression(member) ==
    schemaToTypeString(member, [ctx |-> ctx[1], rendered |-> <<>>, warnings |-> <<>>],
                       NoName, NoName).text

MultipleRefsWarning(name) ==
    "Warning: " \o name \o " uses multiple $refs in allOf, using intersection type"

\* C21: the declaration of a named shape with allOf is interface Name
\* extends Base, with one body line per property of the inline member, when
\* exactly one member is a reference and at most one is inline; otherwise it
\* is the alias of the intersection of the type expressions of all members
\* in member order, and a warning is given exactly when more than one member
\* is a reference.
C21_ExtendsOrIntersection ==
    \A i \in 1..Len(interfaces[1]) :
        LET entry == SchemasOf(doc[1]).entries[i]
            text == interfaces[1][i]
            members == MembersOf(entry.v, "allOf")
            refs == ReferenceMembers(members)
            inline == InlineMembers(members)
            properties == IF inline = <<>> THEN <<>> ELSE DeclaredProperties(inline[1])
            lines == Split(text, "\n")
            opening == "export interface " \o entry.k \o " extends "
                       \o PointedName(refs[1]) \o " {"
        IN  RuleOf(entry.v) = "allOf" =>
                IF Len(refs) = 1 /\ Len(inline) <= 1
                THEN IF properties = <<>> THEN text = opening \o "}"
                     ELSE /\ Len(lines) = Len(properties) + 2
                          /\ lines[1] = opening
                          /\ lines[Len(lines)] = "}"
                          /\ \A k \in 1..Len(properties) :
                                StartsWith(lines[k + 1], "  " \o properties[k].k)
                ELSE /\ text = "export type " \o entry.k \o " = "
                               \o Join([k \in 1..Len(members) |->
                                           MemberExpression(members[k])], " & ")
                               \o ";"
                     /\ Len(refs) > 1
                          <=> \E w \in 1..Len(warnings[1]) :
                                 warnings[1][w] = MultipleRefsWarning(entry.k)

\* the declared properties of an object node as the inline members of a
\* structural type: name, ? unless required, type
InlineProperties(node) ==
    LET entries == DeclaredProperties(node)
        required == {Get(node, "required").elems[k].s :
                        k \in 1..Len(MembersOf(node, "required"))}
    IN  Join([k \in 1..Len(entries) |->
                 entries[k].k \o (IF entries[k].k \in required THEN "" ELSE "?") \o ": "
                 \o PrimitiveExpression(entries[k].v)], "; ")

\* the value type of a free-form object
ValueType(additional) ==
    IF additional = JBool(TRUE) THEN "unknown"
    ELSE IF Get(additional, "$ref").kind = "string" THEN PointedName(additional)
    ELSE PrimitiveExpression(additional)

\* C22: a call of schemaToTypeString on an object node returns the
\* structural type when the node has properties only, Record<string, V>
\* when it has a free-form value type only, Record<string, unknown> when it
\* has neither, the structural type with an index signature when it has
\* both and V is unknown, and the intersection of the structural type and
\* Record<string, V> when it has both and V is typed; additionalProperties
\* false is no free-form value type.
C22_ObjectNodeCases ==
    LET node == Innermost(typeCall.schema)
        additional == Get(node, "additionalProperties")
        hasProperties == DeclaredProperties(node) # <<>>
        hasFreeForm == additional.kind # "undefined" /\ additional # JBool(FALSE)
        structure == "{ " \o InlineProperties(node)
        expected ==
            IF hasProperties /\ ~hasFreeForm THEN structure \o " }"
            ELSE IF ~hasProperties /\ hasFreeForm
                THEN "Record<string, " \o ValueType(additional) \o ">"
            ELSE IF ~hasProperties THEN "Record<string, unknown>"
            ELSE IF ValueType(additional) = "unknown"
                THEN structure \o "; [key: string]: unknown }"
            ELSE structure \o " } & Record<string, " \o ValueType(additional) \o ">"
    IN  (/\ typeCall.pc = "returned"
         /\ Get(node, "type") = JStr("object")
         /\ Get(node, "enum").kind = "undefined")
        => /\ typeCall.result.ok
           /\ typeCall.result.text = expected \o Brackets(typeCall.schema)

C22_Witness ==
    /\ typeCall.pc = "returned"
    /\ typeCall.schema
          = ObjectNode(JObj(<<KV("id", TypeOf("integer")), KV("tag", TypeOf("string"))>>),
                       ArrayOf(Ref("Dog")))
    /\ typeCall.result.text = "{ id: number; tag?: string } & Record<string, Dog[]>"

\* the entries of a parameters array that are no references, in their order
DeclaredParameters(parameters) ==
    SelectSeq(IF IsArr(parameters) THEN parameters.elems ELSE <<>>,
              LAMBDA q : Get(q, "$ref").kind = "undefined")

\* the path/method pairs of a document that hold an operation
OperationPairs(d) ==
    {<<Get(d, "paths").entries[i].k, HTTP_METHODS[m]>> :
        i \in 1..Len(Get(d, "paths").entries), m \in 1..Len(HTTP_METHODS)}
    \cap {pair \in {<<Get(d, "paths").entries[i].k, HTTP_METHODS[m]>> :
                       i \in 1..Len(Get(d, "paths").entries), m \in 1..Len(HTTP_METHODS)} :
             IsObj(Get(Get(Get(d, "paths"), pair[1]), pair[2]))}

\* C23: parseOperations gives one operation per path/method pair, and its
\* parameters are the path-level parameters in their order followed by the
\* operation-level parameters in their order, the references of both levels
\* left out.
C23_ParametersConcatenated ==
    clientPc[1] = "done" =>
        /\ {<<clientOperations[1][i].path, clientOperations[1][i].method>> :
               i \in 1..Len(clientOperations[1])} = OperationPairs(doc[1])
        /\ Len(clientOperations[1]) = Cardinality(OperationPairs(doc[1]))
        /\ \A i \in 1..Len(clientOperations[1]) :
              LET op == clientOperations[1][i]
              IN  op.parameters
                    = DeclaredParameters(Get(Get(Get(doc[1], "paths"), op.path), "parameters"))
                      \o DeclaredParameters(Get(OperationOf(doc[1], op), "parameters"))

C23_Witness ==
    /\ clientPc[1] = "done"
    /\ \E i \in 1..Len(clientOperations[1]) :
          /\ clientOperations[1][i].operationId = "getItem"
          /\ clientOperations[1][i].parameters
                = <<Parameter("item_id", "path", TRUE, TypeOf("integer")),
                    Parameter("limit", "query", FALSE, TypeOf("integer")),
                    Parameter("item_id", "path", TRUE, TypeOf("string")),
                    Parameter("limit", "query", TRUE, TypeOf("string"))>>

\* the expression schemaToTypeString gives for a schema in the context of
\* the pass
GeneratorExpression(schema) ==
    schemaToTypeString(schema, [ctx |-> ctx[1], rendered |-> <<>>, warnings |-> <<>>],
                       NoName, NoName).text

\* the schema of the JSON content of a request body or response
JsonSchema(holder) == Get(Get(Get(holder, "content"), "application/json"), "schema")

\* C24: the type the client gives a parameter, a JSON request body and the
\* JSON response of an operation is the expression schemaToTypeString gives
\* for the same schema and configuration.
C24_ClientTypesAreGeneratorTypes ==
    clientPc[1] = "done" =>
        \A g \in 1..Len(clientGroups[1]) :
            \A o \in 1..Len(clientGroups[1][g].value) :
                LET op == clientGroups[1][g].value[o]
                    file == MapGet(files[1], ClientFileName(clientGroups[1][g].key))
                    signature == MethodLines(file, op)[1]
                    operation == OperationOf(doc[1], op)
                    response == Get(Get(operation, "responses"), "200")
                IN  /\ \A k \in 1..Len(op.parameters) :
                          LET q == op.parameters[k]
                          IN  Contains(signature,
                                       StyledName(Get(q, "name").s, config[1])
                                       \o (IF Get(q, "in") = JStr("query")
                                              /\ Get(q, "required") # JBool(TRUE)
                                           THEN "?" ELSE "")
                                       \o ": " \o GeneratorExpression(Get(q, "schema")))
                    /\ IsObj(JsonSchema(op.requestBody))
                          => Contains(signature,
                                      "body: " \o GeneratorExpression(JsonSchema(op.requestBody)))
                    /\ IsObj(JsonSchema(response))
                          => op.responseType = GeneratorExpression(JsonSchema(response))

\* generateTypes run on a document by itself, from the shape at position i
\* on: the string returned, or the message of the error thrown
RECURSIVE AloneLoop(_, _, _, _)
AloneLoop(entries, i, context, declarations) ==
    IF i > Len(entries)
    THEN [ok |-> TRUE, error |-> "",
          output |-> Join(OutputParts(context.inlineEnums, declarations, context.config),
                          "\n")]
    ELSE LET res == generateInterface(entries[i].k, entries[i].v,
                                      [ctx |-> context, rendered |-> <<>>,
                                       warnings |-> <<>>])
         IN  IF res.ok
             THEN AloneLoop(entries, i + 1, res.env.ctx, Append(declarations, res.text))
             ELSE [ok |-> FALSE, error |-> res.message, output |-> ""]

Alone(d, cfg) ==
    IF NoSchemas(d)
    THEN [ok |-> TRUE, error |-> "", output |-> "// No schemas found in OpenAPI spec\n"]
    ELSE AloneLoop(SchemasOf(d).entries, 1,
                   [doc |-> d, config |-> applyDefaults(cfg), inlineEnums |-> <<>>,
                    discriminatorLiterals |-> collectDiscriminatorLiterals(SchemasOf(d))],
                   <<>>)

C26_NoOperationLost ==
    clientPc[1] = "done" =>
        \A i \in 1..Len(clientOperations[1]) :
            \E f \in 1..Len(files[1]) :
                Contains(files[1][f].value,
                         "\n  async " \o clientOperations[1][i].operationId \o "(")

\* C27: generateClients returns one file per group of groupOperationsByTag:
\* as many files as groups, and the class of every group in one of them.
C27_OneFilePerTag ==
    clientPc[1] = "done" =>
        /\ Len(files[1]) = Len(clientGroups[1])
        /\ \A g \in 1..Len(clientGroups[1]) :
              \E f \in 1..Len(files[1]) :
                  Contains(files[1][f].value,
                           "\nexport class " \o toPascalCase(clientGroups[1][g].key)
                           \o SuffixOf(config[1]) \o " extends ")

\* C28: in a declaration of the constObject or enum style the keys of
\* distinct values are distinct.
C28_DistinctKeys ==
    (enumCall.pc = "returned" /\ enumCall.config.enumType # "union") =>
        LET keys == KeysOf(enumCall.result, enumCall.config.enumType)
        IN  \A i, j \in 1..Len(enumCall.values) :
                enumCall.values[i] # enumCall.values[j] => keys[i] # keys[j]

\* C29: a property rendered inside an inline object nested in a named shape
\* (it is no property of the shape or of a member of its allOf) gets no
\* literal override: it keeps the type of its schema and is optional unless
\* required.
C29_OverrideOnlyTopLevel ==
    \A i \in 1..Len(rendered[1]) :
        LET e == rendered[1][i]
        IN  e.call.propSchema
                \notin OwnPropertySchemas(Get(SchemasOf(doc[1]), e.shape), e.call.propName)
            => /\ ~e.call.hasOverride
               /\ e.call.optionalMark = (IF e.call.isRequired THEN "" ELSE "?")
               /\ ~StartsWith(e.call.fullType, "'")

\* the name of an argument of a signature
ArgumentName(argument) == SubSeq(argument, 1, IndexOfFrom(argument, ": ", 1) - 1)

\* C30: in every client method the arguments of the path parameters have
\* pairwise distinct names, and the path template holds the interpolation
\* of the identifier in place of every placeholder of a declared path
\* parameter.
C30_DistinctArgumentsAndFilledPath ==
    clientPc[1] = "done" =>
        \A g \in 1..Len(clientGroups[1]) :
            \A o \in 1..Len(clientGroups[1][g].value) :
                LET op == clientGroups[1][g].value[o]
                    file == MapGet(files[1], ClientFileName(clientGroups[1][g].key))
                    args == SignatureArguments(MethodLines(file, op)[1], op)
                    pathParams == SelectSeq(op.parameters,
                                            LAMBDA q : Get(q, "in") = JStr("path"))
                    n == Len(pathParams)
                    names == {Get(pathParams[k], "name").s : k \in 1..n}
                IN  /\ \A j, k \in 1..n :
                          ArgumentName(args[j]) = ArgumentName(args[k]) => j = k
                    /\ n > 0 => Contains(MethodLines(file, op)[2],
                                         ", " \o Backtick
                                         \o Interpolated(op.path, names, config[1])
                                         \o Backtick)

=============================================================================
